---- MODULE Spec2Model ----
(***************************************************************************)
(* Model of vmm/pdb.c (MemProcFS): the registry and cache of debug-symbol  *)
(* databases, the lazy loader, the asynchronous kernel bootstrap and the   *)
(* handle-taking query entry points.                                       *)
(*                                                                         *)
(* Representation                                                          *)
(*   QWORD   a tuple of four 16-bit limbs, least significant first         *)
(*   DWORD   a tuple of two 16-bit limbs, least significant first          *)
(*   LPSTR   NULL is <<>>, a string s is <<s>> with s a tuple of character *)
(*           codes                                                         *)
(*   ctx     the contexts ever allocated by PDB_Initialize, numbered 1..;  *)
(*           the pointer ctxVmm->pPdbContext is 0 (NULL) or such a number. *)
(*           PDB_Close zeroes a context and never frees it, so a stale     *)
(*           pointer still reads (zeroed) memory.                          *)
(***************************************************************************)
EXTENDS Integers, Sequences, FiniteSets, TLC

\* ------------------------------------------------------------------------
\* Bounds of the model
\* ------------------------------------------------------------------------

\* contexts PDB_Initialize may allocate in one run of the process
MaxCtx == 2

\* ------------------------------------------------------------------------
\* Machine words
\* ------------------------------------------------------------------------

Limb == 2^16

Lo13 == 2^13

Q64(l0, l1, l2, l3) == <<l0, l1, l2, l3>>

Zero64 == Q64(0, 0, 0, 0)

\* 64-bit addition, wrapping
Add64(a, b) ==
    LET s0 == a[1] + b[1]
        s1 == a[2] + b[2] + (s0 \div Limb)
        s2 == a[3] + b[3] + (s1 \div Limb)
        s3 == a[4] + b[4] + (s2 \div Limb)
    IN  <<s0 % Limb, s1 % Limb, s2 % Limb, s3 % Limb>>

\* 64-bit subtraction, wrapping
Sub64(a, b) ==
    LET d0 == a[1] - b[1]
        d1 == a[2] - b[2] - (IF d0 < 0 THEN 1 ELSE 0)
        d2 == a[3] - b[3] - (IF d1 < 0 THEN 1 ELSE 0)
        d3 == a[4] - b[4] - (IF d2 < 0 THEN 1 ELSE 0)
    IN  <<d0 % Limb, d1 % Limb, d2 % Limb, d3 % Limb>>

\* (q >> 13) | (q << 51) on a QWORD
Ror13_64(q) ==
    [j \in 1..4 |-> (q[j] \div Lo13) + ((q[(j % 4) + 1] % Lo13) * 8)]

\* (d >> 13) | (d << 19) on a DWORD
Ror13_32(d) ==
    [j \in 1..2 |-> (d[j] \div Lo13) + ((d[(j % 2) + 1] % Lo13) * 8)]

\* 32-bit addition of a character code, wrapping
Add32(d, c) ==
    LET s0 == d[1] + c
        s1 == d[2] + (s0 \div Limb)
    IN  <<s0 % Limb, s1 % Limb>>

\* zero extension DWORD -> QWORD
ZExt(d) == Q64(d[1], d[2], 0, 0)

\* a > b for QWORDs (unsigned)
Gt64(a, b) ==
    \E j \in 1..4 : a[j] > b[j] /\ \A k \in (j + 1)..4 : a[k] = b[k]

\* (DWORD)q widened again where a QWORD is stored
Dword64(q) == Q64(q[1], q[2], 0, 0)

\* a small DWORD as a QWORD
Small64(n) == Q64(n % Limb, n \div Limb, 0, 0)

\* *(PQWORD)(pb + off) for a little-endian byte tuple pb (off counted from 0)
ReadQword(pb, off) ==
    [j \in 1..4 |-> pb[off + 2 * j - 1] + 256 * pb[off + 2 * j]]

\* ------------------------------------------------------------------------
\* Strings
\* ------------------------------------------------------------------------

NULL == <<>>

Str(s) == <<s>>

s_nt == <<110, 116>>

s_ntoskrnl == <<110, 116, 111, 115, 107, 114, 110, 108>>

s_hal == <<104, 97, 108>>

s_ntkrnlmp_pdb == <<110, 116, 107, 114, 110, 108, 109, 112, 46, 112, 100, 98>>

s_hal_pdb == <<104, 97, 108, 46, 112, 100, 98>>

s_dot_pdb == <<46, 112, 100, 98>>

\* strstr(sz, ".pdb"): the positions at which ".pdb" occurs in sz
PdbTextAt(sz) ==
    { i \in 1..Len(sz) :
        /\ i + 3 <= Len(sz)
        /\ SubSeq(sz, i, i + 3) = s_dot_pdb }

\* the module name PDB_GetHandleFromModuleAddress derives from PdbFileName:
\* the file name cut at its first ".pdb"
ModuleNameOfPdb(szPdbFileName) ==
    IF PdbTextAt(szPdbFileName) = {} THEN szPdbFileName
    ELSE LET i == CHOOSE j \in PdbTextAt(szPdbFileName) :
                      \A k \in PdbTextAt(szPdbFileName) : j <= k
         IN  SubSeq(szPdbFileName, 1, i - 1)

\* Util_HashStringA: rotate-and-add over the characters
RECURSIVE HashStringFrom(_, _, _)
HashStringFrom(s, i, h) ==
    IF i > Len(s) THEN h
    ELSE HashStringFrom(s, i + 1, Add32(Ror13_32(h), s[i]))

Util_HashStringA(sz) == HashStringFrom(sz, 1, <<0, 0>>)

\* Util_PathFileNameFix_Registry(.., fUpper = TRUE): the upper-cased name
UpperChar(c) == IF c >= 97 /\ c <= 122 THEN c - 32 ELSE c

Util_PathFileNameFix_Registry(sz) == [i \in 1..Len(sz) |-> UpperChar(sz[i])]

\* ------------------------------------------------------------------------
\* Hashing
\* ------------------------------------------------------------------------

PDB_HashPdb(szPdbName, pbPdbGUID, dwPdbAge) ==
    LET h0 == ZExt(Util_HashStringA(szPdbName))
        h1 == Add64(Small64(dwPdbAge), Ror13_64(h0))
        h2 == Add64(ReadQword(pbPdbGUID, 0), Ror13_64(h1))
        h3 == Add64(ReadQword(pbPdbGUID, 8), Ror13_64(h2))
    IN  h3

PDB_HashModuleName(szModuleName) ==
    LET wszBuffer == Util_PathFileNameFix_Registry(szModuleName)
    IN  HashStringFrom(wszBuffer, 1, <<0, 0>>)

\* ------------------------------------------------------------------------
\* Program constants
\* ------------------------------------------------------------------------

\* #define VMMWIN_PDB_LOAD_ADDRESS_STEP 0x10000000
VMMWIN_PDB_LOAD_ADDRESS_STEP == Q64(0, 4096, 0, 0)

\* #define VMMWIN_PDB_LOAD_ADDRESS_BASE 0x0000511f'00000000
VMMWIN_PDB_LOAD_ADDRESS_BASE == Q64(0, 0, 20767, 0)

\* the reserved handle of the kernel module: (PDB_HANDLE)-1
PDB_HANDLE_KERNEL == Q64(Limb - 1, Limb - 1, Limb - 1, Limb - 1)

\* ------------------------------------------------------------------------
\* Inputs: the target system and what callers pass in
\* ------------------------------------------------------------------------

GuidA == [i \in 1..16 |-> i]

\* ctxVmm->kernel.vaBase, ctxVmm->kernel.cbSize
KernelBase == Q64(0, 0, 2048, 65535)

KernelSize == Q64(0, 128, 0, 0)

HalBase == Q64(0, 4096, 2048, 65535)

HalSize == Q64(8192, 0, 0, 0)

\* a PE_CODEVIEW_INFO: PdbFileName, Guid, Age
CodeView(szName, pbGUID, dwAge) ==
    [PdbFileName |-> szName, Guid |-> pbGUID, Age |-> dwAge]

\* the debug-info reference embedded in the kernel image
CvKernel == CodeView(s_ntkrnlmp_pdb, GuidA, 1)

CvHal == CodeView(s_hal_pdb, GuidA, 1)

\* a debug-info reference for the kernel that a caller of PDB_Initialize
\* supplies and that differs from the one embedded in the image
CvCaller == CodeView(s_ntkrnlmp_pdb, GuidA, 2)

AddArgs(vaModuleBase, cbModuleSize, szModuleName, cv) ==
    [vaModuleBase |-> vaModuleBase, cbModuleSize |-> cbModuleSize,
     szModuleName |-> szModuleName, szPdbName |-> cv.PdbFileName,
     pbPdbGUID |-> cv.Guid, dwPdbAge |-> cv.Age]

\* the registration the bootstrap makes for a discovered reference cv
KernelAddArgs(cv) == AddArgs(KernelBase, KernelSize, s_ntoskrnl, cv)

\* the registrations callers request
Registrations ==
    { KernelAddArgs(CvKernel),
      AddArgs(HalBase, HalSize, s_hal, CvHal),
      AddArgs(HalBase, HalSize, s_ntoskrnl, CvHal),
      AddArgs(HalBase, HalSize, s_hal, CvKernel) }

\* the module base addresses callers pass to PDB_GetHandleFromModuleAddress
ModuleBases == {KernelBase, HalBase}

\* the limit of PDB_GetHandleFromModuleAddress on the image size: 0x04000000
MaxModuleSize == Q64(0, 1024, 0, 0)

\* the image sizes PE_GetSize may report: none, an ordinary one, the limit
\* and the limit plus one
ModuleSizes == {Zero64, HalSize, MaxModuleSize, Q64(1, 1024, 0, 0)}

\* the debug-info reference PE_GetCodeViewInfo finds in the image at va
CodeViewAt(va) == IF va = KernelBase THEN CvKernel ELSE CvHal

\* the registration PDB_GetHandleFromModuleAddress requests
AddressAddArgs(vaModuleBase, cbModuleSize, cv) ==
    AddArgs(vaModuleBase, Dword64(cbModuleSize), ModuleNameOfPdb(cv.PdbFileName), cv)

AddressRegistrations ==
    { AddressAddArgs(va, cb, CodeViewAt(va)) : va \in ModuleBases, cb \in ModuleSizes }

\* a second address the image of hal is mapped at
HalBaseAlias == Q64(0, 8192, 2048, 65535)

\* the module base addresses of the system in which an image is mapped twice
MappedBases == ModuleBases \cup {HalBaseAlias}

\* the registrations PDB_GetHandleFromModuleAddress requests in that system
MappedRegistrations ==
    { AddressAddArgs(va, HalSize, CodeViewAt(va)) : va \in MappedBases }

\* PDB_HashPdb of every registration request, computed once
PdbHashes ==
    [a \in Registrations \cup AddressRegistrations \cup MappedRegistrations
            \cup {KernelAddArgs(CvCaller)} |->
        PDB_HashPdb(a.szPdbName, a.pbPdbGUID, a.dwPdbAge)]

HashOfArgs(a) == PdbHashes[a]

\* module names that occur in the model
ModuleNames ==
    {s_nt, s_ntoskrnl, s_hal} \cup {a.szModuleName : a \in AddressRegistrations}

\* PDB_HashModuleName of every module name, computed once
ModuleHashes == [n \in ModuleNames |-> PDB_HashModuleName(n)]

ModuleHashOf(szModuleName) == ModuleHashes[szModuleName]

\* a fingerprint that no registration produces
UnknownHandle == Q64(1, 0, 0, 0)

\* module names callers look up (NULL included)
LookupNames == {NULL, Str(s_nt), Str(s_ntoskrnl), Str(s_hal)}

\* handles callers pass to queries
QueryHandles ==
    {Zero64, PDB_HANDLE_KERNEL, UnknownHandle} \cup {HashOfArgs(a) : a \in Registrations}

\* the foreground threads: t1 also drives the lifecycle of the subsystem
Callers == {"t1", "t2"}

WorkerNames == <<"w1", "w2", "w3", "w4">>

\* the bootstrap worker dispatched for context g
WorkerOf(g) == WorkerNames[g]

Workers == {WorkerOf(g) : g \in 1..MaxCtx}

Threads == Callers \cup Workers

NoThread == "none"

\* ------------------------------------------------------------------------
\* Type display: the kernel's debug database and the target's memory
\* ------------------------------------------------------------------------

\* a name the Symbol Backend does not report (a NULL LPWSTR)
NoName == ""

\* the depth of the chain of nested structs in the debug database: deeper
\* than the BYTE level counter can count
ChainDepth == 257

\* the type indices of the debug database
TI == [Word |-> 10, Byte |-> 11, Dword |-> 12, Wchar |-> 13, PWchar |-> 20,
       UnicodeString |-> 1, Bits |-> 2, Outer |-> 3, Inner |-> 4, Leaf |-> 5,
       LargeInteger |-> 6, Empty |-> 7, Mode |-> 8, Short |-> 9, Over |-> 14,
       Chain |-> 100]

\* what SymGetTypeInfoEx reports for a type (the second request of
\* PDB_DisplayTypeNt_DoWork) and for its children (the first request)
TypeInfo(wszTypeName, dwTag, qwLength, dwPtrTypeIndex, dwBaseType, children) ==
    [wszTypeName |-> wszTypeName, dwTag |-> dwTag, qwLength |-> qwLength,
     dwArrayCount |-> 0, dwPtrTypeIndex |-> dwPtrTypeIndex,
     dwBaseType |-> dwBaseType, children |-> children]

ChildInfo(wszName, qwBitFieldLength, dwOffset, dwTypeIndex) ==
    [wszName |-> wszName, qwBitFieldLength |-> qwBitFieldLength,
     dwOffset |-> dwOffset, dwTypeIndex |-> dwTypeIndex]

\* the types of the kernel's debug database: scalars, a pointer, structs
\* with bitfields and nested structs, an enum, an empty struct and a chain
\* of structs nested ChainDepth deep; and, as a damaged database reports
\* them, a struct with a scalar past its size and a struct with a nested
\* struct past its size
TypeDb ==
    LET Base(cb, bt) == TypeInfo(NoName, "SymTagBaseType", cb, 0, bt, <<>>)
        Struct(n, cb, kids) == TypeInfo(n, "SymTagUDT", cb, 0, 0, kids)
    IN  [ti \in {TI[n] : n \in DOMAIN TI} \cup (TI.Chain..(TI.Chain + ChainDepth)) |->
          CASE ti = TI.Word -> Base(2, 7)
            [] ti = TI.Byte -> Base(1, 7)
            [] ti = TI.Dword -> Base(4, 7)
            [] ti = TI.Wchar -> Base(2, 3)
            [] ti = TI.PWchar -> TypeInfo(NoName, "SymTagPointerType", 8, TI.Wchar, 0, <<>>)
            [] ti = TI.UnicodeString ->
                  Struct("_UNICODE_STRING", 16,
                         << ChildInfo("Length", 0, 0, TI.Word),
                            ChildInfo("MaximumLength", 0, 2, TI.Word),
                            ChildInfo("Buffer", 0, 8, TI.PWchar) >>)
            [] ti = TI.Bits ->
                  Struct("_BITS", 4,
                         << ChildInfo("A", 3, 0, TI.Byte),
                            ChildInfo("B", 5, 0, TI.Byte),
                            ChildInfo("C", 4, 1, TI.Byte),
                            ChildInfo("D", 6, 2, TI.Word),
                            ChildInfo("E", 4, 2, TI.Word) >>)
            [] ti = TI.Outer ->
                  Struct("_OUTER", 32,
                         << ChildInfo("Flags", 0, 0, TI.Dword),
                            ChildInfo("Name", 0, 8, TI.UnicodeString),
                            ChildInfo("Inner", 0, 24, TI.Inner) >>)
            [] ti = TI.Inner ->
                  Struct("_INNER", 8,
                         << ChildInfo("X", 0, 0, TI.LargeInteger),
                            ChildInfo("Y", 0, 4, TI.Leaf) >>)
            [] ti = TI.Leaf -> Struct("_LEAF", 4, << ChildInfo("Z", 0, 0, TI.Dword) >>)
            [] ti = TI.LargeInteger ->
                  Struct("_LARGE_INTEGER", 4, << ChildInfo("LowPart", 0, 0, TI.Dword) >>)
            [] ti = TI.Empty -> Struct("_EMPTY", 4, <<>>)
            [] ti = TI.Mode -> TypeInfo("_MODE", "SymTagEnum", 4, 0, 0, <<>>)
            [] ti = TI.Short ->
                  Struct("_SHORT", 4,
                         << ChildInfo("Head", 0, 0, TI.Dword),
                            ChildInfo("Tail", 0, 4, TI.Dword) >>)
            [] ti = TI.Over ->
                  Struct("_OVER", 8,
                         << ChildInfo("Tag", 0, 0, TI.Dword),
                            ChildInfo("In", 0, 4, TI.Inner) >>)
            [] OTHER ->
                  Struct("_CHAIN", 0,
                         IF ti < TI.Chain + ChainDepth
                         THEN << ChildInfo("Next", 0, 0, ti + 1) >>
                         ELSE <<>>)]

\* the type names callers ask for and the type SymGetTypeFromName finds
NamedTypes ==
    [n \in {"_UNICODE_STRING", "_BITS", "_OUTER", "_LEAF", "_EMPTY", "_MODE", "_CHAIN",
             "_SHORT", "_OVER"} |->
        CASE n = "_UNICODE_STRING" -> TI.UnicodeString
          [] n = "_BITS" -> TI.Bits
          [] n = "_OUTER" -> TI.Outer
          [] n = "_LEAF" -> TI.Leaf
          [] n = "_EMPTY" -> TI.Empty
          [] n = "_MODE" -> TI.Mode
          [] n = "_SHORT" -> TI.Short
          [] n = "_OVER" -> TI.Over
          [] OTHER -> TI.Chain]

\* the bytes of a QWORD, lowest first
Bytes64(q) ==
    << q[1] % 256, q[1] \div 256, q[2] % 256, q[2] \div 256,
       q[3] % 256, q[3] \div 256, q[4] % 256, q[4] \div 256 >>

\* addresses of text: in kernel memory, in user memory, and a kernel address
\* that cannot be read
VaText == [kernel |-> Q64(4096, 0, 32768, 65535),
           user |-> Q64(4096, 0, 0, 0),
           unmapped |-> Q64(8192, 0, 32768, 65535)]

\* the instances in the target's kernel memory, each with its address va and
\* its bytes: _UNICODE_STRINGs (Length, MaximumLength, Buffer) that are
\* plausible, empty, of odd length, too long, with a user-mode Buffer and
\* with an unreadable Buffer; a _BITS; an _OUTER with a plausible and one
\* with an odd-length _UNICODE_STRING in it
Instances ==
    LET UStr(cb, va) == << cb % 256, cb \div 256, 8, 2, 0, 0, 0, 0 >> \o Bytes64(va)
        At(n) == Q64(256 * n, 1, 32768, 65535)
        Outer(cb) == <<17, 0, 0, 0, 0, 0, 0, 0>> \o UStr(cb, VaText.kernel)
                        \o <<5, 0, 0, 0, 9, 1, 0, 0>>
    IN  [StrOk |-> [va |-> At(1), bytes |-> UStr(6, VaText.kernel)],
         StrZero |-> [va |-> At(2), bytes |-> UStr(0, VaText.kernel)],
         StrOdd |-> [va |-> At(3), bytes |-> UStr(7, VaText.kernel)],
         StrLong |-> [va |-> At(4), bytes |-> UStr(520, VaText.kernel)],
         StrUser |-> [va |-> At(5), bytes |-> UStr(6, VaText.user)],
         StrUnmapped |-> [va |-> At(6), bytes |-> UStr(6, VaText.unmapped)],
         Bits |-> [va |-> At(7), bytes |-> <<173, 11, 85, 1>>],
         OuterOk |-> [va |-> At(8), bytes |-> Outer(6)],
         OuterOdd |-> [va |-> At(9), bytes |-> Outer(7)]]

\* VMM_KADDR for a 64-bit target: the address is in the kernel half
VMM_KADDR(va) == va[4] = 65535 /\ va[3] >= 32768

\* VMM_KADDR_4_8 for a 64-bit target: a kernel address aligned on 8 bytes
VMM_KADDR_4_8(va) == VMM_KADDR(va) /\ va[1] % 8 = 0

\* VmmRead of cb bytes at va, where an instance is: <<>> when the read fails
ReadInstance(va, cb) ==
    LET at == { n \in DOMAIN Instances :
                  Instances[n].va = va /\ Len(Instances[n].bytes) >= cb }
    IN  IF at = {} THEN <<>>
        ELSE SubSeq(Instances[CHOOSE n \in at : TRUE].bytes, 1, cb)

\* VmmRead of cbData bytes of text at vaData, as WCHARs: <<>> when it fails
ReadText(vaData, cbData) ==
    IF vaData \in {VaText.kernel, VaText.user}
    THEN [k \in 1..(cbData \div 2) |-> 97 + ((k - 1) % 26)]
    ELSE <<>>

\* ------------------------------------------------------------------------
\* Type display: PDB_DisplayTypeNt_DoWork
\* ------------------------------------------------------------------------

PDB_DisplayTypeNt_GetTypeName(pDT, cbType) ==
    IF pDT.wszTypeName # NoName THEN pDT.wszTypeName
    ELSE CASE pDT.dwBaseType = 1 -> "void"
           [] pDT.dwBaseType = 2 -> "char"
           [] pDT.dwBaseType = 3 -> "wchar"
           [] pDT.dwBaseType = 8 -> "float"
           [] pDT.dwBaseType = 9 -> "bcd"
           [] pDT.dwBaseType = 10 -> "bool"
           [] pDT.dwBaseType = 25 -> "currency"
           [] pDT.dwBaseType = 26 -> "date"
           [] pDT.dwBaseType = 27 -> "variant"
           [] pDT.dwBaseType = 28 -> "complex"
           [] pDT.dwBaseType = 29 -> "bit"
           [] pDT.dwBaseType = 30 -> "BSTR"
           [] pDT.dwBaseType = 31 -> "HRESULT"
           [] pDT.dwBaseType \in {6, 13} ->
                (CASE cbType = 1 -> "int8" [] cbType = 2 -> "int16"
                   [] cbType = 4 -> "int32" [] cbType = 8 -> "int64"
                   [] OTHER -> "int??")
           [] pDT.dwBaseType \in {7, 14} ->
                (CASE cbType = 1 -> "byte" [] cbType = 2 -> "word"
                   [] cbType = 4 -> "dword" [] cbType = 8 -> "uint64"
                   [] OTHER -> "uint??")
           [] pDT.dwBaseType = -1 -> "function"
           [] pDT.dwBaseType = -2 -> "pointer"
           [] OTHER -> "???"

\* Faulty variant: the cursor is not reset when it has reached the width of
\* the storage
BitBaseAtField_NoWidthReset(qwBitBase, cbTypeLast, cbType) ==
    IF qwBitBase # 0 /\ (cbTypeLast # cbType \/ cbType \notin {1, 2, 4, 8})
    THEN 0 ELSE qwBitBase

\* the bitfield cursor qwBitBase for a field of storage size cbType that
\* follows a field of storage size cbTypeLast
BitBaseAtField(qwBitBase, cbTypeLast, cbType) ==
    IF qwBitBase # 0 /\ (\/ cbTypeLast # cbType
                         \/ qwBitBase >= cbType * 8
                         \/ cbType \notin {1, 2, 4, 8})
    THEN 0 ELSE qwBitBase

\* Faulty variant: one level too many
RecurseAllowed_OneMore(iLevel, iLevelMax) == iLevel <= iLevelMax

\* the depth test of the recursion into a nested struct
RecurseAllowed(iLevel, iLevelMax) == iLevel < iLevelMax

\* the QWORD v decoded from the cbType bytes of a field, as 8 bytes: the
\* bytes themselves, or for a bitfield (v >> qwBitBase) & ((1 << length) - 1)
FieldValue(bytes, qwBitFieldLength, qwBitBase) ==
    LET Bit(k) == IF k \div 8 < Len(bytes)
                  THEN (bytes[(k \div 8) + 1] \div (2 ^ (k % 8))) % 2 ELSE 0
        Out(j) == IF qwBitFieldLength = 0 THEN Bit(j)
                  ELSE IF j < qwBitFieldLength /\ qwBitBase + j < 64
                  THEN Bit(qwBitBase + j) ELSE 0
    IN  [m \in 1..8 |->
            Out(8 * m - 8) + 2 * Out(8 * m - 7) + 4 * Out(8 * m - 6) + 8 * Out(8 * m - 5)
            + 16 * Out(8 * m - 4) + 32 * Out(8 * m - 3) + 64 * Out(8 * m - 2)
            + 128 * Out(8 * m - 1)]

\* the format of a decoded value v of a field of cbType bytes
FieldFormat(v, cbType) ==
    IF v[1] < 10 /\ \A m \in 2..8 : v[m] = 0 THEN "%llX"
    ELSE CASE cbType = 1 -> "0x%02llX" [] cbType = 2 -> "0x%04llX"
           [] cbType = 4 -> "0x%08llX" [] OTHER -> "0x%016llX"

\* the _UNICODE_STRING special case for the window mem of instance bytes:
\* the text to append to the line, <<>> when nothing is appended
UnicodeStringText(mem) ==
    LET cbData == mem[1] + 256 * mem[2]
        vaData == ReadQword(mem, 8)
    IN  IF VMM_KADDR(vaData) /\ cbData # 0 /\ cbData % 2 = 0 /\ cbData < 260 * 2
        THEN ReadText(vaData, cbData)
        ELSE <<>>

\* no instance bytes: pbMEM is NULL
NoMem == [p |-> FALSE, b |-> <<>>]

\* a call of PDB_DisplayTypeNt_DoWork in progress: its arguments and the
\* locals of its loop (i the next child, counted from 1; qwBitBase the
\* cursor after the last child; cbTypeLast)
DoWorkFrame(iLevel, dwTypeIndex, dwChildCount, wszTypeName, mem) ==
    [iLevel |-> iLevel, dwTypeIndex |-> dwTypeIndex, dwChildCount |-> dwChildCount,
     wszTypeName |-> wszTypeName, mem |-> mem, i |-> 1, qwBitBase |-> 0,
     cbTypeLast |-> 0]

\* PDB_DisplayTypeNt_DoWork up to its loop, as the call number depth + 1 in
\* progress: text is the record of the call, frames the call in progress,
\* none when a request to the Symbol Backend or an allocation fails.
\* ctxDT.fail holds the type indices for which one fails.
PDB_DisplayTypeNt_DoWork(ctxDT, iLevel, depth, dwTypeIndex, dwChildCount, wszTypeName, mem) ==
    [text |-> << [kind |-> "call", lvl |-> iLevel, depth |-> depth, ti |-> dwTypeIndex,
                  fMem |-> mem.p, cbMEM |-> Len(mem.b)] >>,
     frames |-> IF \/ dwTypeIndex \in ctxDT.fail
                   \/ dwChildCount # Len(TypeDb[dwTypeIndex].children)
                THEN <<>>
                ELSE << DoWorkFrame(iLevel, dwTypeIndex, dwChildCount, wszTypeName, mem) >>]

\* one pass of the loop of PDB_DisplayTypeNt_DoWork for the call F, which is
\* call number depth + 1 in progress: text is the line committed, followed
\* by the record of the nested call when one is made; next is F after the
\* pass; frames is the nested call in progress
PDB_DisplayTypeNt_DoWork_Child(ctxDT, F, depth) ==
    LET mem == F.mem
        i == F.i
        child == TypeDb[F.dwTypeIndex].children[i]
        pe == TypeDb[child.dwTypeIndex]
        cbType == IF pe.dwArrayCount # 0 THEN pe.qwLength \div pe.dwArrayCount
                  ELSE pe.qwLength
        fPtrName == /\ pe.wszTypeName = NoName
                    /\ pe.dwPtrTypeIndex # 0
                    /\ pe.dwTag \in {"SymTagArrayType", "SymTagPointerType"}
        wszName == IF fPtrName THEN TypeDb[pe.dwPtrTypeIndex].wszTypeName
                   ELSE pe.wszTypeName
        qwBitBase == BitBaseAtField(F.qwBitBase, F.cbTypeLast, cbType)
        ptr == TypeDb[pe.dwPtrTypeIndex]
        dwBaseType ==
            IF pe.dwPtrTypeIndex # 0 /\ wszName = NoName
            THEN IF ptr.dwBaseType # 0 THEN ptr.dwBaseType
                 ELSE IF ptr.dwTag = "SymTagFunctionType" THEN -1
                 ELSE IF ptr.dwTag = "SymTagPointerType" THEN -2
                 ELSE 0
            ELSE pe.dwBaseType
        dwTag == IF /\ pe.dwTag = "SymTagUDT"
                    /\ wszName \in {"_LARGE_INTEGER", "_KEVENT", "_EX_FAST_REF", "_EX_PUSH_LOCK"}
                 THEN "SymTagBaseType" ELSE pe.dwTag
        fValue == /\ mem.p
                  /\ dwTag \in {"SymTagBaseType", "SymTagPointerType"}
                  /\ cbType \in {1, 2, 4, 8}
        fInside == child.dwOffset + cbType <= Len(mem.b)
        v == IF fValue /\ fInside
             THEN FieldValue(SubSeq(mem.b, child.dwOffset + 1, child.dwOffset + cbType),
                             child.qwBitFieldLength, qwBitBase)
             ELSE <<>>
        fString == /\ mem.p
                   /\ F.dwChildCount = 3
                   /\ i = 3
                   /\ F.wszTypeName = "_UNICODE_STRING"
        line == [kind |-> "line", lvl |-> F.iLevel, depth |-> depth,
                 parent |-> F.dwTypeIndex,
                 i |-> i, off |-> child.dwOffset, name |-> child.wszName,
                 cnt |-> pe.dwArrayCount, fPtr |-> pe.dwPtrTypeIndex # 0,
                 cb |-> cbType, tag |-> dwTag, type |-> NoName, bit |-> <<>>,
                 val |-> <<>>, fmt |-> NoName, oob |-> FALSE, str |-> <<>>]
        fRecurse == /\ Len(pe.children) # 0
                    /\ RecurseAllowed(F.iLevel, ctxDT.iLevelMax)
                    /\ (~mem.p \/ child.dwOffset + pe.qwLength <= Len(mem.b))
        nested == PDB_DisplayTypeNt_DoWork(
                      ctxDT, (F.iLevel + 1) % 256, depth + 1, child.dwTypeIndex,
                      Len(pe.children), wszName,
                      IF mem.p
                      THEN [p |-> TRUE, b |-> SubSeq(mem.b, child.dwOffset + 1, Len(mem.b))]
                      ELSE NoMem)
        next == [F EXCEPT !.i = i + 1,
                          !.qwBitBase = qwBitBase + child.qwBitFieldLength,
                          !.cbTypeLast = cbType]
    IN  IF dwTag = "SymTagUDT"
        THEN [text |-> << [line EXCEPT !.type = wszName] >>
                          \o (IF fRecurse THEN nested.text ELSE <<>>),
              next |-> next,
              frames |-> IF fRecurse THEN nested.frames ELSE <<>>]
        ELSE [text |-> << [line EXCEPT
                   !.type = PDB_DisplayTypeNt_GetTypeName(
                                [wszTypeName |-> wszName, dwBaseType |-> dwBaseType], cbType),
                   !.bit = IF child.qwBitFieldLength # 0
                           THEN << qwBitBase, qwBitBase + child.qwBitFieldLength - 1 >>
                           ELSE <<>>,
                   !.val = v,
                   !.fmt = IF v # <<>> THEN FieldFormat(v, cbType) ELSE NoName,
                   !.oob = (fValue /\ ~fInside) \/ (fString /\ Len(mem.b) < 16),
                   !.str = IF fString /\ Len(mem.b) >= 16
                           THEN UnicodeStringText(mem.b) ELSE <<>>] >>,
              next |-> next,
              frames |-> <<>>]

\* the calls of PDB_DisplayTypeNt_DoWork still in progress once every call
\* whose loop has ended has returned (stack holds them outermost first)
PDB_DisplayTypeNt_DoWork_Return(stack) ==
    LET live == {k \in 1..Len(stack) : stack[k].i <= stack[k].dwChildCount}
    IN  IF live = {} THEN <<>>
        ELSE SubSeq(stack, 1, CHOOSE k \in live : \A j \in live : j <= k)

\* ------------------------------------------------------------------------
\* Type display: PDB_DisplayTypeNt
\* ------------------------------------------------------------------------

\* a call of PDB_DisplayTypeNt and what its environment does: fChildCount is
\* the success of the fetch of the child count, alloc names the allocation
\* that fails ("szu8" the text buffer, "mem" the instance bytes, "result"
\* the copy for the caller), fail holds the types for which a request or an
\* allocation of PDB_DisplayTypeNt_DoWork fails
DisplayCall(szTypeName, cLevelMax, vaType, fChildCount, alloc, fail) ==
    [szTypeName |-> szTypeName, cLevelMax |-> cLevelMax, vaType |-> vaType,
     fChildCount |-> fChildCount, alloc |-> alloc, fail |-> fail]

\* the call that the registry system makes
DisplayDefault == DisplayCall("_LEAF", 0, Zero64, TRUE, "none", {})

\* PDB_DisplayTypeNt after a successful PDB_LoadEnsureEx, up to the loop of
\* its call of PDB_DisplayTypeNt_DoWork: f tells that it has not failed, ub
\* that the text buffer was written through a NULL pointer, text is what
\* was written to the buffer (with the calls of PDB_DisplayTypeNt_DoWork),
\* stack the call in progress. fLookup: SymGetTypeFromName succeeds.
PDB_DisplayTypeNt_Begin(dt, fLookup) ==
    LET fFound == fLookup /\ dt.szTypeName \in DOMAIN NamedTypes
        ti == NamedTypes[dt.szTypeName]
        si == TypeDb[ti]
        cTypeChildren == Len(si.children)
        fail == [f |-> FALSE, ub |-> FALSE, text |-> <<>>, cbType |-> 0, stack |-> <<>>]
        bytes == IF /\ VMM_KADDR_4_8(dt.vaType)
                    /\ si.qwLength >= 4
                    /\ si.qwLength < 8192
                    /\ dt.alloc # "mem"
                 THEN ReadInstance(dt.vaType, si.qwLength) ELSE <<>>
        mem == IF bytes = <<>> THEN NoMem ELSE [p |-> TRUE, b |-> bytes]
        hdr == [kind |-> "hdr", name |-> dt.szTypeName, fVa |-> mem.p]
        work == PDB_DisplayTypeNt_DoWork(
                    [iLevelMax |-> dt.cLevelMax, fail |-> dt.fail],
                    0, 0, ti, cTypeChildren, NoName, mem)
    IN  IF ~fFound THEN fail
        ELSE IF si.dwTag # "SymTagUDT" THEN fail
        ELSE IF ~dt.fChildCount \/ cTypeChildren = 0 THEN fail
        ELSE IF dt.alloc = "szu8" THEN [fail EXCEPT !.ub = TRUE, !.cbType = si.qwLength]
        ELSE [f |-> TRUE, ub |-> FALSE, text |-> << hdr >> \o work.text,
              cbType |-> si.qwLength, stack |-> work.frames]

\* PDB_DisplayTypeNt after its call of PDB_DisplayTypeNt_DoWork, with text
\* in the buffer: the BOOL returned and the text handed to the caller
PDB_DisplayTypeNt_End(dt, text) ==
    IF text = <<>> \/ dt.alloc = "result"
    THEN [f |-> FALSE, text |-> <<>>]
    ELSE [f |-> TRUE, text |-> text]

\* the calls of PDB_DisplayTypeNt in the display system: every struct at
\* every depth limit without an instance; the string descriptor, the nested
\* struct and the bitfields on every instance; and the failures of the
\* lookup, of the child count, of each allocation and of the requests for
\* each struct of the nested one
DisplayCalls ==
    {DisplayCall(n, l, Zero64, TRUE, "none", {}) :
        n \in {"_CHAIN", "_OUTER", "_BITS", "_UNICODE_STRING"}, l \in {0, 1, 2, 255}}
    \cup {DisplayCall(n, l, Instances[i].va, TRUE, "none", {}) :
        n \in {"_UNICODE_STRING", "_OUTER", "_BITS"}, l \in {0, 1, 2},
        i \in DOMAIN Instances}
    \cup {DisplayCall(n, 2, va, fc, a, f) :
        n \in {"_OUTER", "_EMPTY", "_MODE", "_NOSUCH"},
        va \in {Zero64, Instances.OuterOk.va}, fc \in BOOLEAN,
        a \in {"none", "szu8", "mem", "result"},
        f \in {{}, {TI.Outer}, {TI.Inner}, {TI.UnicodeString}}}

\* the calls of PDB_DisplayTypeNt in the decoding system: on every instance,
\* at every depth limit, the nested struct, the string descriptor, the
\* bitfields and the two structs of the damaged database
DecodeCalls ==
    {DisplayCall(n, l, Instances[i].va, TRUE, "none", {}) :
        n \in {"_OUTER", "_UNICODE_STRING", "_BITS", "_SHORT", "_OVER"},
        l \in {0, 1, 2}, i \in DOMAIN Instances}

\* ------------------------------------------------------------------------
\* PDB_ENTRY and the object maps
\* ------------------------------------------------------------------------

\* Ob_Alloc(.., LMEM_ZEROINIT, ..) followed by the field assignments of
\* PDB_AddModuleEntry; nFind and nLoad count the Symbol Backend calls made
\* for the Entry (SymFindFileInPath, SymLoadModuleEx); cRef is the reference
\* count of the object, one for the allocating caller
NewEntry(a) ==
    [qwHash        |-> HashOfArgs(a),
     vaModuleBase  |-> a.vaModuleBase,
     szModuleName  |-> Str(a.szModuleName),
     szName        |-> Str(a.szPdbName),
     pbGUID        |-> a.pbPdbGUID,
     dwAge         |-> a.dwPdbAge,
     cbModuleSize  |-> a.cbModuleSize,
     fLoadFailed   |-> FALSE,
     szPath        |-> NULL,
     qwLoadAddress |-> Zero64,
     nFind         |-> 0,
     nLoad         |-> 0,
     cRef          |-> 1]

\* An object map is a tuple of [k, v] pairs in insertion order, v an index
\* into the context's objects; index 0 is the NULL object.
ObMap_ExistsKey(pm, k) == \E i \in 1..Len(pm) : pm[i].k = k

ObMap_GetByKey(pm, k) ==
    IF ObMap_ExistsKey(pm, k)
    THEN pm[CHOOSE i \in 1..Len(pm) : pm[i].k = k].v
    ELSE 0

\* a push of a key the map already holds is refused
ObMap_Push(pm, k, v) ==
    IF ObMap_ExistsKey(pm, k) THEN pm ELSE Append(pm, [k |-> k, v |-> v])

\* a reference to object p of context memory c is taken: by a successful
\* ObMap_Push, ObMap_GetByKey or ObMap_GetByIndex
Ob_INCREF(c, p) == IF p = 0 THEN c ELSE [c EXCEPT !.ob[p].cRef = @ + 1]

\* Faulty variant: a borrowed reference is never given back
Ob_DECREF_Leak(c, p) == c

\* Ob_DECREF(p); a NULL pointer is ignored
Ob_DECREF(c, p) == IF p = 0 THEN c ELSE [c EXCEPT !.ob[p].cRef = @ - 1]

\* the reference an object map takes when it accepts the push of p
ObMap_PushRef(c, pm, k, p) == IF ObMap_ExistsKey(pm, k) THEN c ELSE Ob_INCREF(c, p)

\* ------------------------------------------------------------------------
\* VMMWIN_PDB_CONTEXT
\* ------------------------------------------------------------------------

\* the memory of a context after LocalAlloc(LMEM_ZEROINIT) or ZeroMemory:
\* the maps are NULL pointers (fMaps FALSE), the lock is not a usable
\* critical section
ZeroCtx(lockState) ==
    [fDisabled         |-> FALSE,
     lock              |-> [st |-> lockState, owner |-> NoThread, cnt |-> 0],
     fMaps             |-> FALSE,
     pmPdbByHash       |-> <<>>,
     pmPdbByModule     |-> <<>>,
     ob                |-> <<>>,
     qwLoadAddressNext |-> Zero64]

\* the context PDB_Initialize publishes
FreshCtx ==
    [ZeroCtx("init") EXCEPT !.fDisabled = TRUE, !.fMaps = TRUE,
                            !.qwLoadAddressNext = VMMWIN_PDB_LOAD_ADDRESS_BASE]

\* ------------------------------------------------------------------------
\* State
\* ------------------------------------------------------------------------

VARIABLES
    pPdbContext,   \* ctxVmm->pPdbContext: 0 (NULL) or the number of a context
    ctx,           \* the memory of every context
    nCtx,          \* contexts allocated so far
    pdbMain,       \* ctxMain->pdb: fInitialized, fEnable
    ev,            \* hEventThreadStarted of each PDB_Initialize call
    pc,            \* where each thread is
    loc,           \* the locals of the call each thread is in
    warned         \* the Reason lines printed so far by the bootstrap of each context

vars == <<pPdbContext, ctx, nCtx, pdbMain, ev, pc, loc, warned>>

NoArgs == AddArgs(Zero64, Zero64, <<>>, CodeView(<<>>, <<>>, 0))

NoCv == CodeView(<<>>, <<>>, 0)

\* the number of WCHARs of ctxDT.wszln a line segment may use
MAX_PATH == 260

\* the bytes PDB_DisplayTypeNt allocates for ctxDT.szu8
LocalAllocSize == 65536

\* a QWORD whose top 16-bit word is kept apart from the rest: the value is
\* top * 2^48 + low
QwordTop(top, low) == [top |-> top, low |-> low]

\* ctxDT.cszMax as PDB_DisplayTypeNt sets it
cszMax_Initial == QwordTop(0, LocalAllocSize)

\* the accounting of the text buffer of a thread that renders nothing
BufIdle ==
    [csz    |-> 0,               \* ctxDT.csz
     cszMax |-> cszMax_Initial,  \* ctxDT.cszMax
     n      |-> 0,               \* the lines DoWork has rendered
     k      |-> 0,               \* the sub-sections appended
     below  |-> FALSE,           \* a segment was written below ctxDT.wszln
     over   |-> FALSE]           \* bytes past the allocation were touched

\* the loop over the sub-headers of a thread that renders no object header
HdrIdle ==
    [InfoMask  |-> 0,        \* the InfoMask byte of the instance
     cb        |-> <<>>,     \* ctxVmm->offset.<sub-header>.cb, by loop index
     fHexAscii |-> FALSE,    \* the fHexAscii argument
     va0       |-> Zero64,   \* vaType when the loop begins
     vaType    |-> Zero64,   \* vaType
     i         |-> 0,        \* the loop index
     calls     |-> <<>>]     \* the nested calls of PDB_DisplayTypeNt made

\* the locals of a thread that is in no call
LocIdle ==
    [op       |-> "none",   \* the entry point the thread is in
     a        |-> NoArgs,   \* PDB_AddModuleEntry: the arguments
     name     |-> NULL,     \* PDB_GetHandleFromModuleName: szModuleName
     h        |-> Zero64,   \* the handle argument hPDB
     ctx      |-> 0,        \* the local ctx of the entry point
     pOb      |-> 0,        \* pObPdbEntry / pObKernelEntry
     exCtx    |-> 0,        \* the local ctx of PDB_LoadEnsureEx
     fPdbInfo |-> FALSE,    \* pKernelParameters->fPdbInfo
     cv       |-> NoCv,     \* pKernelParameters->PdbInfo
     evt      |-> 0,        \* pKernelParameters->phEventThreadStarted
     retH     |-> Zero64,   \* the handle returned
     retB     |-> FALSE,    \* the BOOL returned
     fSym     |-> FALSE,    \* PDB_DisplayTypeNt: SymGetTypeFromName succeeded
     existed  |-> FALSE,    \* the fingerprint was registered before the call
     branch   |-> "none",   \* the branch on which the bootstrap ended
     disc     |-> <<>>,     \* the discovery steps the bootstrap has invoked
     va       |-> Zero64,   \* PDB_GetHandleFromModuleAddress: vaModuleBase
     cb       |-> Zero64,   \* PDB_GetHandleFromModuleAddress: cbModuleSize
     pe       |-> <<>>,     \* the PE Introspection calls made
     fFull    |-> FALSE,    \* what the full-width query returned to its wrapper
     dw       |-> <<0, 0>>, \* dwTypeSize / dwTypeOffset / cbSymbolOffset
     fOut     |-> FALSE,    \* the caller's output parameter has been written
     out      |-> Zero64,   \* the value in the caller's output parameter
     dt       |-> DisplayDefault,  \* PDB_DisplayTypeNt: the call
     stack    |-> <<>>,     \* PDB_DisplayTypeNt: the calls of DoWork in progress
     text     |-> <<>>,     \* PDB_DisplayTypeNt: what ctxDT.szu8 holds
     ub       |-> FALSE,    \* a NULL pointer has been written through
     buf      |-> BufIdle,  \* PDB_DisplayTypeNt: the accounting of ctxDT.szu8
     hdr      |-> HdrIdle,  \* PDB_DisplayTypeNt: the loop over the sub-headers
     paths    |-> <<>>]     \* PDB_GetSymbolOffset: the symbol and what each path returns

Init ==
    /\ pPdbContext = 0
    /\ ctx = [g \in 1..MaxCtx |-> ZeroCtx("none")]
    /\ nCtx = 0
    /\ pdbMain = [fInitialized |-> FALSE, fEnable |-> FALSE]
    /\ ev = [g \in 1..MaxCtx |-> "none"]
    /\ pc = [t \in Threads |-> IF t \in Callers THEN "idle" ELSE "unborn"]
    /\ loc = [t \in Threads |-> LocIdle]
    /\ warned = [g \in 1..MaxCtx |-> {}]

\* ------------------------------------------------------------------------
\* The lock: a recursive critical section
\* ------------------------------------------------------------------------

\* Faulty variant: a lock that does not exclude other threads
LockAvailable_NoExclusion(c, t) == c.lock.st = "init"

\* EnterCriticalSection returns at once for thread t
LockAvailable(c, t) == c.lock.st = "init" /\ c.lock.owner \in {NoThread, t}

EnterCriticalSection(c, t) ==
    [c EXCEPT !.lock.owner = t, !.lock.cnt = @ + 1]

\* Faulty variant: the lock stays owned after the last leave
LeaveCriticalSection_KeepOwner(c, t) ==
    [c EXCEPT !.lock.cnt = @ - 1]

LeaveCriticalSection(c, t) ==
    [c EXCEPT !.lock.cnt = @ - 1,
              !.lock.owner = IF c.lock.cnt = 1 THEN NoThread ELSE @]

Holds(g, t) == g # 0 /\ ctx[g].lock.st = "init" /\ ctx[g].lock.owner = t

\* ------------------------------------------------------------------------
\* Registry
\* ------------------------------------------------------------------------

\* Faulty variant: allocates and pushes without the ObMap_ExistsKey test
PDB_AddModuleEntry_NoExistsTest(c, a, fAlloc) ==
    IF fAlloc
    THEN [c EXCEPT
            !.ob = Append(@, NewEntry(a)),
            !.pmPdbByHash = ObMap_Push(@, HashOfArgs(a), Len(c.ob) + 1),
            !.pmPdbByModule =
                ObMap_Push(@, ZExt(ModuleHashOf(a.szModuleName)), Len(c.ob) + 1)]
    ELSE c

\* Faulty variant: the module-name index takes the latest registration
PDB_AddModuleEntry_LastWins(c, a, fAlloc) ==
    LET qwPdbHash == HashOfArgs(a)
        qwModule == ZExt(ModuleHashOf(a.szModuleName))
        pObPdbEntry == Len(c.ob) + 1
    IN  IF ~ObMap_ExistsKey(c.pmPdbByHash, qwPdbHash) /\ fAlloc
        THEN [c EXCEPT
                !.ob = Append(@, NewEntry(a)),
                !.pmPdbByHash = ObMap_Push(@, qwPdbHash, pObPdbEntry),
                !.pmPdbByModule =
                    Append(SelectSeq(@, LAMBDA x : x.k # qwModule),
                           [k |-> qwModule, v |-> pObPdbEntry])]
        ELSE c

\* PDB_AddModuleEntry between EnterCriticalSection and LeaveCriticalSection,
\* on context memory c; fAlloc is whether Ob_Alloc succeeds
PDB_AddModuleEntry_Locked(c, a, fAlloc) ==
    LET qwPdbHash == HashOfArgs(a)
        dwHashModule == ZExt(ModuleHashOf(a.szModuleName))
        pObPdbEntry == Len(c.ob) + 1
    IN  IF ~ObMap_ExistsKey(c.pmPdbByHash, qwPdbHash) /\ fAlloc
        THEN Ob_DECREF(
                 ObMap_PushRef(
                     ObMap_PushRef(
                         [c EXCEPT
                            !.ob = Append(@, NewEntry(a)),
                            !.pmPdbByHash = ObMap_Push(@, qwPdbHash, pObPdbEntry),
                            !.pmPdbByModule = ObMap_Push(@, dwHashModule, pObPdbEntry)],
                         c.pmPdbByHash, qwPdbHash, pObPdbEntry),
                     c.pmPdbByModule, dwHashModule, pObPdbEntry),
                 pObPdbEntry)
        ELSE c

\* the value PDB_AddModuleEntry returns after the locked part ran on c
PDB_AddModuleEntry_Result(c, a, fAlloc) ==
    IF ~ObMap_ExistsKey(c.pmPdbByHash, HashOfArgs(a)) /\ ~fAlloc
    THEN Zero64
    ELSE HashOfArgs(a)

\* Faulty variant: "nt" is not taken for the kernel
NormalizeModuleName_NullOnly(szModuleName) ==
    IF szModuleName = NULL THEN s_ntoskrnl ELSE szModuleName[1]

\* the name PDB_GetHandleFromModuleName looks up for szModuleName
NormalizeModuleName(szModuleName) ==
    IF szModuleName = NULL \/ szModuleName = Str(s_nt)
    THEN s_ntoskrnl
    ELSE szModuleName[1]

\* Faulty variant: the Entry's fingerprint is returned whether or not its
\* load has failed
PDB_GetHandleFromModuleName_IgnoreLoadFailed(szModuleName) ==
    IF pPdbContext = 0 \/ ctx[pPdbContext].fDisabled THEN Zero64
    ELSE LET c == ctx[pPdbContext]
             dwHashModule == ModuleHashOf(NormalizeModuleName(szModuleName))
             pObPdbEntry == ObMap_GetByKey(c.pmPdbByModule, ZExt(dwHashModule))
         IN  IF pObPdbEntry = 0 THEN Zero64 ELSE c.ob[pObPdbEntry].qwHash

PDB_GetHandleFromModuleName(szModuleName) ==
    IF pPdbContext = 0 \/ ctx[pPdbContext].fDisabled THEN Zero64
    ELSE LET c == ctx[pPdbContext]
             dwHashModule == ModuleHashOf(NormalizeModuleName(szModuleName))
             pObPdbEntry == ObMap_GetByKey(c.pmPdbByModule, ZExt(dwHashModule))
         IN  IF pObPdbEntry = 0 THEN Zero64
             ELSE IF c.ob[pObPdbEntry].fLoadFailed THEN Zero64
             ELSE c.ob[pObPdbEntry].qwHash

\* ------------------------------------------------------------------------
\* Lazy loader: PDB_LoadEnsureEx
\* ------------------------------------------------------------------------

\* what PDB_LoadEnsureEx does before it calls the Symbol Backend: "false"
\* and "true" are its early returns, "find" the call of SymFindFileInPath
PDB_LoadEnsureEx_Early(pCtx, e) ==
    IF pCtx = 0 \/ e.fLoadFailed THEN "false"
    ELSE IF e.qwLoadAddress # Zero64 THEN "true"
    ELSE "find"

\* SymFindFileInPath was called for Entry e; fFind is whether it succeeded
PDB_LoadEnsureEx_Find(e, fFind) ==
    [e EXCEPT !.nFind = @ + 1, !.fLoadFailed = ~fFind]

\* the path SymFindFileInPath resolves for an Entry
PathOf(e) == Str(<<47>> \o e.szName[1])

\* the rest of PDB_LoadEnsureEx for Entry e with the slot counter at qwNext:
\* fDup is whether Util_StrDupA succeeds, fLoad whether SymLoadModuleEx does
PDB_LoadEnsureEx_Load(e, qwNext, fDup, fLoad) ==
    [e EXCEPT !.szPath = IF fDup THEN PathOf(e) ELSE NULL,
              !.qwLoadAddress = IF fLoad THEN qwNext ELSE Zero64,
              !.nLoad = @ + 1,
              !.fLoadFailed = ~(fDup /\ fLoad)]

\* Faulty variant: the load step reports success whatever happened
PDB_LoadEnsureEx_LoadResult_Always(fDup, fLoad) == TRUE

\* the value PDB_LoadEnsureEx returns after its load step
PDB_LoadEnsureEx_LoadResult(fDup, fLoad) == fDup /\ fLoad

\* Faulty variant: the slot counter is advanced only by a load that succeeds
NextSlot_Stay(qwNext) == qwNext

\* ctx->qwLoadAddressNext += VMMWIN_PDB_LOAD_ADDRESS_STEP
NextSlot(qwNext) == Add64(qwNext, VMMWIN_PDB_LOAD_ADDRESS_STEP)

\* ------------------------------------------------------------------------
\* Threads
\* ------------------------------------------------------------------------

Goto(t, l) == pc' = [pc EXCEPT ![t] = l]

\* thread t returns from its entry point with locals r; when it has written
\* through a NULL pointer it returns or the process ends there
Done(t, r) ==
    /\ loc' = [loc EXCEPT ![t] = r]
    /\ \/ pc' = [pc EXCEPT ![t] = "done"]
       \/ r.ub /\ pc' = [u \in Threads |-> "crashed"]

\* the caller takes the result and is free for its next call
Return(t) ==
    /\ pc[t] = "done"
    /\ pc' = [pc EXCEPT ![t] = "idle"]
    /\ loc' = [loc EXCEPT ![t] = LocIdle]
    /\ UNCHANGED <<pPdbContext, ctx, nCtx, pdbMain, ev, warned>>

\* ------------------------------------------------------------------------
\* PDB_AddModuleEntry
\* ------------------------------------------------------------------------

AddModuleEntry_Start(t, a) ==
    /\ pc[t] = "idle"
    /\ IF pPdbContext = 0
       THEN Done(t, [LocIdle EXCEPT !.op = "AddModuleEntry", !.a = a])
       ELSE /\ Goto(t, "add_enter")
            /\ loc' = [loc EXCEPT ![t] =
                  [LocIdle EXCEPT !.op = "AddModuleEntry", !.a = a, !.ctx = pPdbContext]]
    /\ UNCHANGED <<pPdbContext, ctx, nCtx, pdbMain, ev, warned>>

AddModuleEntry_Enter(t) ==
    /\ pc[t] = "add_enter"
    /\ LET g == loc[t].ctx
           c == ctx[g]
       IN  /\ LockAvailable(c, t)
           /\ \E fAlloc \in BOOLEAN :
                /\ ctx' = [ctx EXCEPT ![g] =
                      LeaveCriticalSection(
                          PDB_AddModuleEntry_Locked(EnterCriticalSection(c, t), loc[t].a, fAlloc), t)]
                /\ Done(t, [loc[t] EXCEPT
                      !.retH = PDB_AddModuleEntry_Result(c, loc[t].a, fAlloc),
                      !.existed = ObMap_ExistsKey(c.pmPdbByHash, HashOfArgs(loc[t].a))])
    /\ UNCHANGED <<pPdbContext, nCtx, pdbMain, ev, warned>>

\* ------------------------------------------------------------------------
\* PDB_GetHandleFromModuleName
\* ------------------------------------------------------------------------

GetHandleFromModuleName(t, szModuleName) ==
    /\ pc[t] = "idle"
    /\ Done(t, [LocIdle EXCEPT !.op = "GetHandleFromModuleName",
                               !.name = szModuleName,
                               !.retH = PDB_GetHandleFromModuleName(szModuleName)])
    /\ UNCHANGED <<pPdbContext, ctx, nCtx, pdbMain, ev, warned>>

\* ------------------------------------------------------------------------
\* PDB_GetHandleFromModuleAddress
\* ------------------------------------------------------------------------

\* the Entries of context c, in the order of the fingerprint index, whose
\* module base is vaModuleBase
EntriesAtBase(c, vaModuleBase) ==
    { i \in 1..Len(c.pmPdbByHash) :
        c.ob[c.pmPdbByHash[i].v].vaModuleBase = vaModuleBase }

\* Faulty variant: an image of exactly the limit is refused too
ModuleSizeRefused_AtLimit(cbModuleSize) ==
    cbModuleSize = Zero64 \/ ~Gt64(MaxModuleSize, cbModuleSize)

\* the size test of PDB_GetHandleFromModuleAddress
ModuleSizeRefused(cbModuleSize) ==
    cbModuleSize = Zero64 \/ Gt64(cbModuleSize, MaxModuleSize)

\* PDB_GetHandleFromModuleAddress up to its call of PDB_AddModuleEntry.
\* cbModuleSize is what PE_GetSize reports and fCodeView whether
\* PE_GetCodeViewInfo finds the debug-info reference of the image.
GetHandleFromModuleAddress(t, vaModuleBase, cbModuleSize, fCodeView) ==
    /\ pc[t] = "idle"
    /\ LET r == [LocIdle EXCEPT !.op = "GetHandleFromModuleAddress",
                                !.va = vaModuleBase, !.ctx = pPdbContext]
           c == ctx[pPdbContext]
           found == EntriesAtBase(c, vaModuleBase)
           first == CHOOSE i \in found : \A j \in found : i <= j
           sized == [r EXCEPT !.cb = cbModuleSize, !.pe = <<"PE_GetSize">>]
           asked == [sized EXCEPT !.pe = Append(@, "PE_GetCodeViewInfo")]
       IN  IF pPdbContext = 0 THEN Done(t, r)
           ELSE IF found # {}
           THEN Done(t, [r EXCEPT !.retH = c.ob[c.pmPdbByHash[first].v].qwHash])
           ELSE IF ModuleSizeRefused(cbModuleSize) THEN Done(t, sized)
           ELSE IF ~fCodeView THEN Done(t, asked)
           ELSE /\ Goto(t, "add_enter")
                /\ loc' = [loc EXCEPT ![t] =
                      [asked EXCEPT !.a = AddressAddArgs(vaModuleBase, cbModuleSize,
                                                        CodeViewAt(vaModuleBase))]]
    /\ UNCHANGED <<pPdbContext, ctx, nCtx, pdbMain, ev, warned>>

\* ------------------------------------------------------------------------
\* The handle-taking queries
\* ------------------------------------------------------------------------

\* entry points that take the lock and call PDB_LoadEnsureEx
LoadingQueries == {"LoadEnsure", "GetSymbolOffset", "GetTypeSize", "DisplayTypeNt"}

QueryKinds == LoadingQueries \cup {"GetModuleName"}

\* the queries built on PDB_GetSymbolOffset, PDB_GetTypeSize and
\* PDB_GetTypeChildOffset, and PDB_GetTypeChildOffset itself
ValueQueries ==
    {"GetSymbolAddress", "GetTypeSizeShort", "GetTypeChildOffset", "GetTypeChildOffsetShort"}

\* the full-width query a query runs: itself unless it is a wrapper
FullQueryOf(kind) ==
    CASE kind = "GetSymbolAddress" -> "GetSymbolOffset"
      [] kind = "GetTypeSizeShort" -> "GetTypeSize"
      [] kind = "GetTypeChildOffsetShort" -> "GetTypeChildOffset"
      [] OTHER -> kind

\* DWORD values the Symbol Backend reports: 0, 8, 0xffff, 0x10000, 0xf0000000
DwordValues == {<<0, 0>>, <<8, 0>>, <<65535, 0>>, <<0, 1>>, <<0, 61440>>}

\* Faulty variant: the callback takes 0x10000000..0x1000ffff too
BelowCallbackLimit_Inclusive(dw) == dw[2] <= 4096

\* the DWORD is below 0x10000000
BelowCallbackLimit(dw) == dw[2] < 4096

\* PDB_GetSymbolOffset after a successful load: b.f is what SymEnumSymbols
\* or SymGetTypeFromName returns, b.v the symbol's Address - ModBase and
\* b.f32 is ctxVmm->f32
PDB_GetSymbolOffset_Result(b) ==
    IF b.f32
    THEN LET dw == IF b.f /\ BelowCallbackLimit(b.v) THEN b.v ELSE <<0, 0>>
         IN  [f |-> b.f /\ dw # <<0, 0>>, fOut |-> TRUE, dw |-> dw]
    ELSE [f |-> b.f, fOut |-> TRUE, dw |-> IF b.f THEN b.v ELSE <<0, 0>>]

\* PDB_GetTypeSize after a successful load: b.v is SymbolInfo.Size
PDB_GetTypeSize_Result(b) ==
    [f |-> b.f /\ b.v # <<0, 0>>, fOut |-> TRUE, dw |-> b.v]

\* PDB_GetTypeChildOffset after a successful load: b.f tells that the
\* child was found and its offset b.v fetched
PDB_GetTypeChildOffset_Result(b) ==
    [f |-> b.f, fOut |-> b.f, dw |-> IF b.f THEN b.v ELSE <<0, 0>>]

\* Faulty variant: the 16-bit wrapper truncates instead of failing
PDB_Short_Truncating(fFull, dw) ==
    IF ~fFull THEN [f |-> FALSE, fOut |-> FALSE, out |-> Zero64]
    ELSE [f |-> TRUE, fOut |-> TRUE, out |-> Q64(dw[1], 0, 0, 0)]

\* PDB_GetTypeSizeShort and PDB_GetTypeChildOffsetShort, given what the
\* full-width query returned and wrote
PDB_Short(fFull, dw) ==
    IF ~fFull \/ dw[2] > 0 THEN [f |-> FALSE, fOut |-> FALSE, out |-> Zero64]
    ELSE [f |-> TRUE, fOut |-> TRUE, out |-> Q64(dw[1], 0, 0, 0)]

\* Faulty variant: the offset is added to the low half of the module base
\* and the carry is lost
SymbolAddress_NoCarry(vaModuleBase, cbSymbolOffset) ==
    LET sum == Add64(Dword64(vaModuleBase), ZExt(cbSymbolOffset))
    IN  Q64(sum[1], sum[2], vaModuleBase[3], vaModuleBase[4])

\* pObPdbEntry->vaModuleBase + cbSymbolOffset
SymbolAddress(vaModuleBase, cbSymbolOffset) ==
    Add64(vaModuleBase, ZExt(cbSymbolOffset))

\* PDB_GetSymbolAddress, given what PDB_GetSymbolOffset returned and wrote
\* and the Entry e that the second lookup of the handle finds
PDB_GetSymbolAddress_Result(fFull, dw, e) ==
    IF ~fFull THEN [f |-> FALSE, fOut |-> FALSE, out |-> Zero64]
    ELSE [f |-> TRUE, fOut |-> TRUE, out |-> SymbolAddress(e.vaModuleBase, dw)]

\* what the full-width query of r.op returns and writes after a successful
\* load, for the Symbol Backend outcome b
Query_FullResult(kind, b) ==
    CASE FullQueryOf(kind) = "GetSymbolOffset" -> PDB_GetSymbolOffset_Result(b)
      [] FullQueryOf(kind) = "GetTypeSize" -> PDB_GetTypeSize_Result(b)
      [] FullQueryOf(kind) = "GetTypeChildOffset" -> PDB_GetTypeChildOffset_Result(b)
      [] OTHER -> [f |-> b.f, fOut |-> FALSE, dw |-> <<0, 0>>]

\* the locals and outputs of the call r of PDB_DisplayTypeNt when dtr is
\* what PDB_DisplayTypeNt_Begin gives: with no call of
\* PDB_DisplayTypeNt_DoWork in progress the function runs to its end
PDB_DisplayTypeNt_Locals(r, dtr) ==
    [r EXCEPT !.retB = dtr.f /\ dtr.stack = <<>>
                       /\ PDB_DisplayTypeNt_End(r.dt, dtr.text).f,
              !.text = IF dtr.stack = <<>>
                       THEN PDB_DisplayTypeNt_End(r.dt, dtr.text).text
                       ELSE dtr.text,
              !.stack = dtr.stack, !.ub = dtr.ub,
              !.out = Small64(dtr.cbType)]

\* the locals and outputs of query r after its full-width query has run
\* past the load on Entry e with Symbol Backend outcome b
Query_Result(r, e, b) ==
    LET full == Query_FullResult(r.op, b)
        wrap == IF r.op = "GetSymbolAddress"
                THEN PDB_GetSymbolAddress_Result(full.f, full.dw, e)
                ELSE PDB_Short(full.f, full.dw)
    IN  IF r.op = "DisplayTypeNt"
        THEN PDB_DisplayTypeNt_Locals([r EXCEPT !.fSym = b.f],
                                      PDB_DisplayTypeNt_Begin(r.dt, b.f))
        ELSE IF FullQueryOf(r.op) = r.op
        THEN [r EXCEPT !.retB = full.f, !.dw = full.dw, !.fOut = full.fOut,
                       !.out = IF full.fOut THEN ZExt(full.dw) ELSE Zero64]
        ELSE [r EXCEPT !.fFull = full.f, !.dw = full.dw,
                       !.retB = wrap.f, !.fOut = wrap.fOut, !.out = wrap.out]

\* Faulty variant: a prologue that does not test ctx->fDisabled
Query_Rejects_IgnoreDisabled(kind, h) ==
    \/ pPdbContext = 0
    \/ (kind # "DisplayTypeNt" /\ h = Zero64)

\* the shared prologue rejects the call
Query_Rejects(kind, h) ==
    \/ pPdbContext = 0
    \/ ctx[pPdbContext].fDisabled
    \/ (kind # "DisplayTypeNt" /\ h = Zero64)

\* the handle the prologue looks up
Query_Handle(kind, h) ==
    IF kind = "DisplayTypeNt" \/ h = PDB_HANDLE_KERNEL
    THEN PDB_GetHandleFromModuleName(Str(s_ntoskrnl))
    ELSE h

\* Faulty variant: a prologue that falls back on the first Entry when the
\* handle is not registered
Query_Entry_Fallback(kind, h) ==
    IF Query_Rejects(kind, h) THEN 0
    ELSE IF ObMap_ExistsKey(ctx[pPdbContext].pmPdbByHash, Query_Handle(kind, h))
    THEN ObMap_GetByKey(ctx[pPdbContext].pmPdbByHash, Query_Handle(kind, h))
    ELSE IF Len(ctx[pPdbContext].ob) > 0 THEN 1 ELSE 0

\* pObPdbEntry of the prologue: 0 when the call returns FALSE there
Query_Entry(kind, h) ==
    IF Query_Rejects(kind, h) THEN 0
    ELSE ObMap_GetByKey(ctx[pPdbContext].pmPdbByHash, Query_Handle(kind, h))

Query_StartWith(t, kind, h, dt) ==
    /\ pc[t] = "idle"
    /\ LET pOb == Query_Entry(kind, h)
           r == [LocIdle EXCEPT !.op = kind, !.h = h, !.dt = dt,
                                !.fOut = (kind \in {"GetSymbolOffset", "DisplayTypeNt"})]
       IN  IF pOb = 0 THEN Done(t, r) /\ UNCHANGED ctx
           ELSE IF kind = "GetModuleName"
           THEN /\ Done(t, [r EXCEPT !.retB = TRUE,
                                     !.name = ctx[pPdbContext].ob[pOb].szModuleName])
                /\ UNCHANGED ctx
           ELSE /\ Goto(t, "q_enter")
                /\ loc' = [loc EXCEPT ![t] = [r EXCEPT !.ctx = pPdbContext, !.pOb = pOb]]
                /\ ctx' = [ctx EXCEPT ![pPdbContext] = Ob_INCREF(@, pOb)]
    /\ UNCHANGED <<pPdbContext, nCtx, pdbMain, ev, warned>>

Query_Start(t, kind, h) == Query_StartWith(t, kind, h, DisplayDefault)

\* PDB_DisplayTypeNt called as dt tells
DisplayTypeNt_Start(t, dt) == Query_StartWith(t, "DisplayTypeNt", Zero64, dt)

\* Faulty variant: a query that does not wait for the lock
Query_CanEnter_NoWait(c, t) == c.lock.st = "init"

\* EnterCriticalSection of a query returns for thread t
Query_CanEnter(c, t) == LockAvailable(c, t)

\* the outcomes of the Symbol Backend calls a query makes after the load:
\* f the success of the call, v the value it reports, f32 a 32-bit target
Query_BackendResults(kind) ==
    LET none == [f |-> TRUE, v |-> <<0, 0>>, f32 |-> FALSE]
    IN  CASE kind = "LoadEnsure" -> {none}
          [] kind = "DisplayTypeNt" -> {[none EXCEPT !.f = f] : f \in BOOLEAN}
          [] FullQueryOf(kind) = "GetSymbolOffset" ->
                {[none EXCEPT !.f = FALSE, !.f32 = f32] : f32 \in BOOLEAN}
                \cup [f : {TRUE}, v : DwordValues, f32 : BOOLEAN]
          [] FullQueryOf(kind) = "GetTypeSize" ->
                [f : BOOLEAN, v : DwordValues, f32 : {FALSE}]
          [] OTHER ->
                {[none EXCEPT !.f = FALSE]} \cup [f : {TRUE}, v : DwordValues, f32 : {FALSE}]

\* a query with the locals r it has after its own Symbol Backend calls, in
\* the lock of its context, whose value is c: it leaves the lock and
\* returns; PDB_DisplayTypeNt goes on to the loop of
\* PDB_DisplayTypeNt_DoWork in the lock
Query_Leave_KeepOnFail(t, c, r) ==
    IF r.stack # <<>>
    THEN /\ ctx' = [ctx EXCEPT ![r.ctx] = c]
         /\ Goto(t, "dt_work")
         /\ loc' = [loc EXCEPT ![t] = r]
    ELSE /\ ctx' = [ctx EXCEPT ![r.ctx] =
                   Ob_DECREF(IF r.retB THEN LeaveCriticalSection(c, t) ELSE c, r.pOb)]
         /\ Done(t, r)

Query_Leave(t, c, r) ==
    IF r.stack # <<>>
    THEN /\ ctx' = [ctx EXCEPT ![r.ctx] = c]
         /\ Goto(t, "dt_work")
         /\ loc' = [loc EXCEPT ![t] = r]
    ELSE /\ ctx' = [ctx EXCEPT ![r.ctx] = Ob_DECREF(LeaveCriticalSection(c, t), r.pOb)]
         /\ Done(t, r)

\* a query past a successful PDB_LoadEnsureEx on Entry e, in the lock of its
\* context, whose value is c
Query_Run(t, c, e) ==
    \E b \in Query_BackendResults(loc[t].op) :
        Query_Leave(t, c, Query_Result(loc[t], e, b))

\* PDB_DisplayTypeNt of thread t with the calls stack of
\* PDB_DisplayTypeNt_DoWork in progress and text in the buffer: after the
\* return of the outermost call the text is copied for the caller, the lock
\* is left and PDB_DisplayTypeNt returns
PDB_DisplayTypeNt_Continue(t, stack, text) ==
    IF stack # <<>>
    THEN /\ loc' = [loc EXCEPT ![t].stack = stack, ![t].text = text]
         /\ UNCHANGED <<pc, ctx>>
    ELSE /\ ctx' = [ctx EXCEPT ![loc[t].ctx] =
                   Ob_DECREF(LeaveCriticalSection(@, t), loc[t].pOb)]
         /\ Done(t, [loc[t] EXCEPT !.stack = <<>>,
                                   !.text = PDB_DisplayTypeNt_End(loc[t].dt, text).text,
                                   !.retB = PDB_DisplayTypeNt_End(loc[t].dt, text).f])

\* PDB_DisplayTypeNt of thread t after the pass w of the loop of the
\* innermost call of PDB_DisplayTypeNt_DoWork, with the returns that follow
PDB_DisplayTypeNt_After(t, w) ==
    PDB_DisplayTypeNt_Continue(
        t,
        PDB_DisplayTypeNt_DoWork_Return(
            SubSeq(loc[t].stack, 1, Len(loc[t].stack) - 1) \o << w.next >> \o w.frames),
        loc[t].text \o w.text)

\* PDB_DisplayTypeNt: one pass of the loop of the innermost call of
\* PDB_DisplayTypeNt_DoWork in progress
PDB_DisplayTypeNt_Step(t) ==
    /\ pc[t] = "dt_work"
    /\ PDB_DisplayTypeNt_After(
           t,
           PDB_DisplayTypeNt_DoWork_Child(
               [iLevelMax |-> loc[t].dt.cLevelMax, fail |-> loc[t].dt.fail],
               loc[t].stack[Len(loc[t].stack)], Len(loc[t].stack) - 1))
    /\ UNCHANGED <<pPdbContext, nCtx, pdbMain, ev, warned>>

\* the query takes the lock and runs PDB_LoadEnsureEx up to its first
\* Symbol Backend call
Query_Enter(t) ==
    /\ pc[t] = "q_enter"
    /\ LET g == loc[t].ctx
           c == ctx[g]
           e == c.ob[loc[t].pOb]
           early == PDB_LoadEnsureEx_Early(pPdbContext, e)
       IN  /\ Query_CanEnter(c, t)
           /\ \/ /\ early = "false"
                 /\ Done(t, loc[t])
                 /\ ctx' = [ctx EXCEPT ![g] = Ob_DECREF(c, loc[t].pOb)]
              \/ /\ early = "true"
                 /\ Query_Run(t, EnterCriticalSection(c, t), e)
              \/ /\ early = "find"
                 /\ ctx' = [ctx EXCEPT ![g] =
                        Ob_DECREF(
                            LeaveCriticalSection(
                                [EnterCriticalSection(c, t) EXCEPT
                                    !.ob[loc[t].pOb] = PDB_LoadEnsureEx_Find(e, FALSE)], t),
                            loc[t].pOb)]
                 /\ Done(t, loc[t])
              \/ /\ early = "find"
                 /\ ctx' = [ctx EXCEPT ![g] =
                        [EnterCriticalSection(c, t) EXCEPT
                            !.ob[loc[t].pOb] = PDB_LoadEnsureEx_Find(e, TRUE)]]
                 /\ Goto(t, "ex_load")
                 /\ loc' = [loc EXCEPT ![t].exCtx = pPdbContext]
    /\ UNCHANGED <<pPdbContext, nCtx, pdbMain, ev, warned>>

\* the context after the load step of PDB_LoadEnsureEx by a thread in ex_load
CtxAfterLoad(t, fDup, fLoad) ==
    LET g == loc[t].ctx
        c == ctx[g]
    IN  [c EXCEPT !.ob[loc[t].pOb] =
                      PDB_LoadEnsureEx_Load(@, ctx[loc[t].exCtx].qwLoadAddressNext, fDup, fLoad),
                  !.qwLoadAddressNext = NextSlot(@)]

\* a query finishes PDB_LoadEnsureEx, makes its own Symbol Backend calls,
\* leaves the lock and returns
Query_Load(t) ==
    /\ pc[t] = "ex_load"
    /\ loc[t].op \in LoadingQueries \cup ValueQueries
    /\ \E fDup \in BOOLEAN, fLoad \in BOOLEAN :
         IF PDB_LoadEnsureEx_LoadResult(fDup, fLoad)
         THEN Query_Run(t, CtxAfterLoad(t, fDup, fLoad), ctx[loc[t].ctx].ob[loc[t].pOb])
         ELSE /\ ctx' = [ctx EXCEPT ![loc[t].ctx] =
                     Ob_DECREF(LeaveCriticalSection(CtxAfterLoad(t, fDup, fLoad), t),
                               loc[t].pOb)]
              /\ Done(t, loc[t])
    /\ UNCHANGED <<pPdbContext, nCtx, pdbMain, ev, warned>>

\* ------------------------------------------------------------------------
\* PDB_Initialize and the kernel bootstrap
\* ------------------------------------------------------------------------

\* the debug-info references a caller may hand to PDB_Initialize (NoCv: none)
InitOptions == {NoCv, CvKernel}

\* PDB_Initialize up to the dispatch of the bootstrap. fSetup: the
\* Configuration Store enables symbols and every allocation, library load
\* and Symbol Backend initialization succeeds.
Initialize_From(t, l, pPdbInfoOpt, fInitializeKernelAsync) ==
    /\ pc[t] = l
    /\ LET r == [LocIdle EXCEPT !.op = "Initialize"]
       IN
       \/ /\ pdbMain.fInitialized
          /\ Done(t, r)
          /\ UNCHANGED <<pPdbContext, ctx, nCtx, pdbMain, ev, warned>>
       \/ /\ ~pdbMain.fInitialized
          /\ pdbMain' = [fInitialized |-> TRUE, fEnable |-> FALSE]
          /\ Done(t, r)
          /\ UNCHANGED <<pPdbContext, ctx, nCtx, ev, warned>>
       \/ /\ ~pdbMain.fInitialized
          /\ nCtx < MaxCtx
          /\ LET g == nCtx + 1
                 k == [r EXCEPT !.fPdbInfo = (pPdbInfoOpt # NoCv),
                                !.cv = pPdbInfoOpt, !.evt = g]
             IN  /\ pdbMain' = [fInitialized |-> TRUE, fEnable |-> TRUE]
                 /\ nCtx' = g
                 /\ ctx' = [ctx EXCEPT ![g] = FreshCtx]
                 /\ pPdbContext' = g
                 /\ ev' = [ev EXCEPT ![g] = "unset"]
                 /\ UNCHANGED warned
                 /\ IF fInitializeKernelAsync
                    THEN /\ pc' = [pc EXCEPT ![t] = "init_wait", ![WorkerOf(g)] = "tp_start"]
                         /\ loc' = [loc EXCEPT ![t] = [r EXCEPT !.evt = g],
                                               ![WorkerOf(g)] = [k EXCEPT !.op = "Bootstrap"]]
                    ELSE /\ pc' = [pc EXCEPT ![t] = "tp_start"]
                         /\ loc' = [loc EXCEPT ![t] = k]

\* a caller calls PDB_Initialize
Initialize_Start(t, pPdbInfoOpt, fInitializeKernelAsync) ==
    Initialize_From(t, "idle", pPdbInfoOpt, fInitializeKernelAsync)

\* WaitForSingleObject(hEventThreadStarted, 500) returns, signalled or timed
\* out (retB: it was signalled); the launcher closes the event and returns
Initialize_Wait(t) ==
    /\ pc[t] = "init_wait"
    /\ ev' = [ev EXCEPT ![loc[t].evt] = "closed"]
    /\ Done(t, [loc[t] EXCEPT !.retB = (ev[loc[t].evt] = "set")])
    /\ UNCHANGED <<pPdbContext, ctx, nCtx, pdbMain, warned>>

\* PDB_Initialize_WaitComplete reads ctxVmm->pPdbContext and
\* ctxMain->pdb.fEnable and returns at once unless both are set
WaitComplete_Start(t) ==
    /\ pc[t] = "idle"
    /\ LET r == [LocIdle EXCEPT !.op = "WaitComplete", !.ctx = pPdbContext]
       IN  IF pPdbContext # 0 /\ pdbMain.fEnable
           THEN Goto(t, "wc_enter") /\ loc' = [loc EXCEPT ![t] = r]
           ELSE Done(t, r)
    /\ UNCHANGED <<pPdbContext, ctx, nCtx, pdbMain, ev, warned>>

\* EnterCriticalSection(&ctx->Lock); LeaveCriticalSection(&ctx->Lock)
WaitComplete_Enter(t) ==
    /\ pc[t] = "wc_enter"
    /\ LockAvailable(ctx[loc[t].ctx], t)
    /\ ctx' = [ctx EXCEPT ![loc[t].ctx] =
                 LeaveCriticalSection(EnterCriticalSection(@, t), t)]
    /\ Done(t, loc[t])
    /\ UNCHANGED <<pPdbContext, nCtx, pdbMain, ev, warned>>

\* the bootstrap runs on a worker (asynchronous) or on the launcher itself
InThreadProc(t) == loc[t].op \in {"Bootstrap", "Initialize"}

\* PDB_Initialize_Async_Kernel_ThreadProc reads ctxVmm->pPdbContext
ThreadProc_Start(t) ==
    /\ pc[t] = "tp_start"
    /\ IF pPdbContext = 0
       THEN /\ Goto(t, "tp_exit")
            /\ loc' = [loc EXCEPT ![t].branch = "noctx"]
       ELSE /\ Goto(t, "tp_enter")
            /\ loc' = [loc EXCEPT ![t].ctx = pPdbContext]
    /\ UNCHANGED <<pPdbContext, ctx, nCtx, pdbMain, ev, warned>>

\* SetEvent on the launcher's event
SetEvent(s) == IF s = "unset" THEN "set" ELSE s

\* Faulty variant: the event is signalled before the lock is requested
ThreadProc_Enter_SignalFirst(t) ==
    /\ pc[t] = "tp_enter"
    /\ \/ /\ ev[loc[t].evt] = "unset"
          /\ ev' = [ev EXCEPT ![loc[t].evt] = SetEvent(@)]
          /\ UNCHANGED <<pPdbContext, ctx, nCtx, pdbMain, pc, loc, warned>>
       \/ /\ ev[loc[t].evt] # "unset"
          /\ LockAvailable(ctx[loc[t].ctx], t)
          /\ ctx' = [ctx EXCEPT ![loc[t].ctx] = EnterCriticalSection(@, t)]
          /\ Goto(t, "tp_disc")
          /\ UNCHANGED <<pPdbContext, nCtx, pdbMain, ev, loc, warned>>

\* EnterCriticalSection(&ctx->Lock); SetEvent(*phEventThreadStarted).
\* phEventThreadStarted points to a local variable of PDB_Initialize: once
\* the launcher has closed the event and returned, the read of the handle is
\* undefined behaviour, after which the worker goes on or the process ends.
ThreadProc_Enter(t) ==
    /\ pc[t] = "tp_enter"
    /\ LockAvailable(ctx[loc[t].ctx], t)
    /\ ctx' = [ctx EXCEPT ![loc[t].ctx] = EnterCriticalSection(@, t)]
    /\ ev' = [ev EXCEPT ![loc[t].evt] = SetEvent(@)]
    /\ \/ Goto(t, "tp_disc")
       \/ /\ ev[loc[t].evt] = "closed"
          /\ pc' = [u \in Threads |-> "crashed"]
    /\ UNCHANGED <<pPdbContext, nCtx, pdbMain, loc, warned>>

\* ctx->fDisabled = FALSE
Enable(c) == [c EXCEPT !.fDisabled = FALSE]

\* Faulty variant: the branch for a missing System process returns at once
ThreadProc_Leave_EarlyReturn(c, t, branch) ==
    IF branch = "nosys" THEN c ELSE LeaveCriticalSection(c, t)

\* Faulty variant: the bootstrap clears fDisabled although discovery failed
ThreadProc_Leave_EnableOnNoDisc(c, t, branch) ==
    LeaveCriticalSection(IF branch = "nodisc" THEN Enable(c) ELSE c, t)

\* the label fail: of the bootstrap, reached on every branch
ThreadProc_Leave(c, t, branch) == LeaveCriticalSection(c, t)

\* the Reason line vmmprintf prints on a branch of the bootstrap, if any
WarningOf(branch) ==
    IF branch \in {"nodisc", "noreg", "noload"} THEN {branch} ELSE {}

\* the bootstrap leaves the lock, gives back its reference to the kernel
\* Entry (within the step of ThreadProc_Discover it is taken and given
\* back) and returns on the given branch, with the context memory c and
\* the locals r; a synchronous launcher then closes its event and returns
ThreadProc_ReturnWith(t, c, branch, r) ==
    /\ ctx' = [ctx EXCEPT ![r.ctx] = Ob_DECREF(ThreadProc_Leave(c, t, branch), r.pOb)]
    /\ warned' = [warned EXCEPT ![r.ctx] = @ \cup WarningOf(branch)]
    /\ IF r.op = "Bootstrap"
       THEN /\ Goto(t, "tp_exit")
            /\ loc' = [loc EXCEPT ![t] = [r EXCEPT !.branch = branch]]
            /\ UNCHANGED ev
       ELSE /\ Done(t, [r EXCEPT !.branch = branch])
            /\ ev' = [ev EXCEPT ![r.evt] = "closed"]

ThreadProc_Return(t, c, branch) == ThreadProc_ReturnWith(t, c, branch, loc[t])

\* Faulty variant: every discovery step is invoked, whatever came before
DiscoverySteps_Eager(fPdbInfo, fPE, fScan) ==
    << [step |-> "pe", f |-> fPE], [step |-> "scan", f |-> fScan] >>

\* the discovery steps the bootstrap invokes, in order, with their
\* outcomes, by the evaluation of
\* fPdbInfo || PE_GetCodeViewInfo(..) || ..ScanForPdbInfo(..): "pe" is PE
\* Introspection, "scan" the signature scan
DiscoverySteps(fPdbInfo, fPE, fScan) ==
    IF fPdbInfo THEN <<>>
    ELSE IF fPE THEN << [step |-> "pe", f |-> fPE] >>
    ELSE << [step |-> "pe", f |-> fPE], [step |-> "scan", f |-> fScan] >>

\* the nested PDB_AddModuleEntry of the bootstrap: the context memory after
\* it, given that it reads context pointer p (the lock is re-entered)
ThreadProc_Add(c, p, a, fAlloc) ==
    IF p = 0 THEN c ELSE PDB_AddModuleEntry_Locked(c, a, fAlloc)

\* qwPdbHash of the bootstrap
ThreadProc_AddResult(c, p, a, fAlloc) ==
    IF p = 0 THEN Zero64 ELSE PDB_AddModuleEntry_Result(c, a, fAlloc)

\* From VmmProcessGet(4) to the first Symbol Backend call of the load:
\* fSys, fPE, fScan are the outcomes of VmmProcessGet, PE_GetCodeViewInfo and
\* the signature scan, fAlloc that of Ob_Alloc.
ThreadProc_Discover(t) ==
    /\ pc[t] = "tp_disc"
    /\ pPdbContext \in {0, loc[t].ctx}
    /\ LET g == loc[t].ctx
           c == ctx[g]
       IN  \E fSys \in BOOLEAN, fPE \in BOOLEAN, fScan \in BOOLEAN, fAlloc \in BOOLEAN :
           LET fPdbInfo == loc[t].fPdbInfo \/ fPE \/ fScan
               cv == IF loc[t].fPdbInfo THEN loc[t].cv ELSE CvKernel
               a == KernelAddArgs(cv)
               c1 == ThreadProc_Add(c, pPdbContext, a, fAlloc)
               qwPdbHash == ThreadProc_AddResult(c, pPdbContext, a, fAlloc)
               pObKernelEntry == ObMap_GetByKey(c1.pmPdbByHash, qwPdbHash)
               e == c1.ob[pObKernelEntry]
               early == PDB_LoadEnsureEx_Early(pPdbContext, e)
               r == [loc[t] EXCEPT !.disc = DiscoverySteps(loc[t].fPdbInfo, fPE, fScan)]
           IN  /\ UNCHANGED <<pPdbContext, nCtx, pdbMain>>
               /\ IF ~fSys THEN ThreadProc_Return(t, c, "nosys")
                  ELSE IF ~fPdbInfo THEN ThreadProc_ReturnWith(t, c, "nodisc", r)
                  ELSE IF pObKernelEntry = 0 THEN ThreadProc_ReturnWith(t, c1, "noreg", r)
                  ELSE IF early = "false" THEN ThreadProc_ReturnWith(t, c1, "noload", r)
                  ELSE IF early = "true" THEN ThreadProc_ReturnWith(t, Enable(c1), "ok", r)
                  ELSE \/ ThreadProc_ReturnWith(t,
                             [c1 EXCEPT !.ob[pObKernelEntry] = PDB_LoadEnsureEx_Find(e, FALSE)],
                             "noload", r)
                       \/ /\ ctx' = [ctx EXCEPT ![g] =
                                Ob_INCREF(
                                    [c1 EXCEPT !.ob[pObKernelEntry] =
                                                   PDB_LoadEnsureEx_Find(e, TRUE)],
                                    pObKernelEntry)]
                          /\ Goto(t, "ex_load")
                          /\ loc' = [loc EXCEPT ![t] = [r EXCEPT !.pOb = pObKernelEntry,
                                                                !.exCtx = pPdbContext,
                                                                !.fPdbInfo = fPdbInfo,
                                                                !.cv = cv]]
                          /\ UNCHANGED <<ev, warned>>

\* the bootstrap finishes PDB_LoadEnsureEx and, when the load succeeded,
\* enables the subsystem
ThreadProc_Load(t) ==
    /\ pc[t] = "ex_load"
    /\ InThreadProc(t)
    /\ \E fDup \in BOOLEAN, fLoad \in BOOLEAN :
         IF PDB_LoadEnsureEx_LoadResult(fDup, fLoad)
         THEN ThreadProc_Return(t, Enable(CtxAfterLoad(t, fDup, fLoad)), "ok")
         ELSE ThreadProc_Return(t, CtxAfterLoad(t, fDup, fLoad), "noload")
    /\ UNCHANGED <<pPdbContext, nCtx, pdbMain>>

\* the worker thread ends
ThreadProc_Exit(t) ==
    /\ pc[t] = "tp_exit"
    /\ pc' = [pc EXCEPT ![t] = "exited"]
    /\ loc' = [loc EXCEPT ![t] = LocIdle]
    /\ UNCHANGED <<pPdbContext, ctx, nCtx, pdbMain, ev, warned>>

\* ------------------------------------------------------------------------
\* PDB_Close and PDB_ConfigChange
\* ------------------------------------------------------------------------

\* The callers of PDB_Close and PDB_ConfigChange modelled here call them
\* when no worker is inside the bootstrap.
BootstrapQuiet == \A w \in Workers : pc[w] \in {"unborn", "tp_exit", "exited"}

\* PDB_Close up to EnterCriticalSection; op is "Close", or "ConfigChange"
\* when PDB_ConfigChange makes the call. With no context PDB_Close returns
\* at once and leaves ctxMain->pdb.fInitialized as it is.
\* PDB_Close itself asks nothing about the bootstrap.
PDB_Close_Begin(t, op) ==
    /\ pc[t] = "idle"
    /\ LET r == [LocIdle EXCEPT !.op = op, !.ctx = pPdbContext]
       IN  IF pPdbContext = 0
           THEN /\ IF op = "Close" THEN Done(t, r)
                   ELSE Goto(t, "cc_init") /\ loc' = [loc EXCEPT ![t] = r]
                /\ UNCHANGED pPdbContext
           ELSE /\ pPdbContext' = 0
                /\ Goto(t, "close_enter")
                /\ loc' = [loc EXCEPT ![t] = r]
    /\ UNCHANGED <<ctx, nCtx, pdbMain, ev, warned>>

Close_From(t, op) == BootstrapQuiet /\ PDB_Close_Begin(t, op)

Close_Start(t) == Close_From(t, "Close")

\* PDB_ConfigChange: the registry update, then PDB_Close under LockMaster
ConfigChange_Start(t) == Close_From(t, "ConfigChange")

\* the rest of PDB_Close: the lock is entered, left and deleted, the maps
\* and libraries are released and the context memory is zeroed
Close_Enter(t) ==
    /\ pc[t] = "close_enter"
    /\ LockAvailable(ctx[loc[t].ctx], t)
    /\ ctx' = [ctx EXCEPT ![loc[t].ctx] = ZeroCtx("deleted")]
    /\ pdbMain' = [pdbMain EXCEPT !.fInitialized = FALSE]
    /\ IF loc[t].op = "Close" THEN Done(t, loc[t])
       ELSE Goto(t, "cc_init") /\ UNCHANGED loc
    /\ UNCHANGED <<pPdbContext, nCtx, ev, warned>>

\* PDB_ConfigChange calls PDB_Initialize(NULL, FALSE)
ConfigChange_Initialize(t) == Initialize_From(t, "cc_init", NoCv, FALSE)

\* ------------------------------------------------------------------------
\* The system
\* ------------------------------------------------------------------------

\* what each foreground thread calls: t1 everything, t2 the loading queries
QueriesOf(t) == IF t = "t1" THEN QueryKinds ELSE {"LoadEnsure"}

\* the handles each foreground thread passes (PDB_DisplayTypeNt takes none)
HandlesOf(t, kind) ==
    IF kind = "DisplayTypeNt" THEN {Zero64}
    ELSE IF t = "t1" THEN QueryHandles
    ELSE {PDB_HANDLE_KERNEL, HashOfArgs(AddArgs(HalBase, HalSize, s_hal, CvHal))}

Next ==
    \/ \E t \in Callers : Return(t)
    \/ \E a \in Registrations : AddModuleEntry_Start("t1", a)
    \/ \E t \in Callers : AddModuleEntry_Enter(t)
    \/ \E n \in LookupNames : GetHandleFromModuleName("t1", n)
    \/ \E t \in Callers : \E k \in QueriesOf(t) : \E h \in HandlesOf(t, k) : Query_Start(t, k, h)
    \/ \E t \in Callers : Query_Enter(t)
    \/ \E t \in Callers : Query_Load(t)
    \/ PDB_DisplayTypeNt_Step("t1")
    \/ \E o \in InitOptions, f \in BOOLEAN : Initialize_Start("t1", o, f)
    \/ Initialize_Wait("t1")
    \/ \E t \in Threads : ThreadProc_Start(t)
    \/ \E t \in Threads : ThreadProc_Enter(t)
    \/ \E t \in Threads : ThreadProc_Discover(t)
    \/ \E t \in Threads : ThreadProc_Load(t)
    \/ \E t \in Workers : ThreadProc_Exit(t)

Spec == Init /\ [][Next]_vars

\* what the foreground thread asks in the lifecycle system
LifeQueries == {"LoadEnsure", "GetModuleName"}

LifeHandles == {PDB_HANDLE_KERNEL, HashOfArgs(AddArgs(HalBase, HalSize, s_hal, CvHal))}

LifeRegistrations == {AddArgs(HalBase, HalSize, s_hal, CvHal)}

\* The lifecycle system: one foreground thread that initializes, closes and
\* reconfigures the subsystem and uses it in between
NextLife ==
    \/ Return("t1")
    \/ \E o \in InitOptions, f \in BOOLEAN : Initialize_Start("t1", o, f)
    \/ Initialize_Wait("t1")
    \/ \E t \in Threads : ThreadProc_Start(t)
    \/ \E t \in Threads : ThreadProc_Enter(t)
    \/ \E t \in Threads : ThreadProc_Discover(t)
    \/ \E t \in Threads : ThreadProc_Load(t)
    \/ \E t \in Workers : ThreadProc_Exit(t)
    \/ Close_Start("t1")
    \/ ConfigChange_Start("t1")
    \/ Close_Enter("t1")
    \/ ConfigChange_Initialize("t1")
    \/ \E a \in LifeRegistrations : AddModuleEntry_Start("t1", a)
    \/ AddModuleEntry_Enter("t1")
    \/ \E n \in LookupNames : GetHandleFromModuleName("t1", n)
    \/ \E k \in LifeQueries, h \in LifeHandles : Query_Start("t1", k, h)
    \/ Query_Enter("t1")
    \/ Query_Load("t1")

SpecLife == Init /\ [][NextLife]_vars

\* The lookup-by-address system: t1 asks for handles by module base while
\* t2 registers modules and the bootstrap runs
NextAddress ==
    \/ \E t \in Callers : Return(t)
    \/ \E o \in InitOptions, f \in BOOLEAN : Initialize_Start("t1", o, f)
    \/ Initialize_Wait("t1")
    \/ \E t \in Threads : ThreadProc_Start(t)
    \/ \E t \in Threads : ThreadProc_Enter(t)
    \/ \E t \in Threads : ThreadProc_Discover(t)
    \/ \E t \in Threads : ThreadProc_Load(t)
    \/ \E t \in Workers : ThreadProc_Exit(t)
    \/ \E va \in ModuleBases, cb \in ModuleSizes, f \in BOOLEAN :
            GetHandleFromModuleAddress("t1", va, cb, f)
    \/ \E a \in LifeRegistrations : AddModuleEntry_Start("t2", a)
    \/ \E t \in Callers : AddModuleEntry_Enter(t)
    \/ \E n \in LookupNames : GetHandleFromModuleName("t2", n)

SpecAddress == Init /\ [][NextAddress]_vars

\* the handle-taking queries
HandleQueries == (QueryKinds \ {"DisplayTypeNt"}) \cup ValueQueries

\* The query system: one foreground thread that initializes the subsystem,
\* registers a module and asks every handle-taking query, with the values
\* the Symbol Backend reports
NextValues ==
    \/ Return("t1")
    \/ \E o \in InitOptions, f \in BOOLEAN : Initialize_Start("t1", o, f)
    \/ Initialize_Wait("t1")
    \/ \E t \in Threads : ThreadProc_Start(t)
    \/ \E t \in Threads : ThreadProc_Enter(t)
    \/ \E t \in Threads : ThreadProc_Discover(t)
    \/ \E t \in Threads : ThreadProc_Load(t)
    \/ \E t \in Workers : ThreadProc_Exit(t)
    \/ \E a \in LifeRegistrations : AddModuleEntry_Start("t1", a)
    \/ AddModuleEntry_Enter("t1")
    \/ \E k \in HandleQueries, h \in QueryHandles : Query_Start("t1", k, h)
    \/ Query_Enter("t1")
    \/ Query_Load("t1")

SpecValues == Init /\ [][NextValues]_vars

\* The display system: one foreground thread that initializes the subsystem
\* and asks for the text of kernel types
NextDisplay ==
    \/ Return("t1")
    \/ \E o \in InitOptions, f \in BOOLEAN : Initialize_Start("t1", o, f)
    \/ Initialize_Wait("t1")
    \/ \E t \in Threads : ThreadProc_Start(t)
    \/ \E t \in Threads : ThreadProc_Enter(t)
    \/ \E t \in Threads : ThreadProc_Discover(t)
    \/ \E t \in Threads : ThreadProc_Load(t)
    \/ \E t \in Workers : ThreadProc_Exit(t)
    \/ \E dt \in DisplayCalls : DisplayTypeNt_Start("t1", dt)
    \/ Query_Enter("t1")
    \/ PDB_DisplayTypeNt_Step("t1")

SpecDisplay == Init /\ [][NextDisplay]_vars

\* The decoding system: one foreground thread that initializes the
\* subsystem and asks for the text of instances in the target's memory
NextDecode ==
    \/ Return("t1")
    \/ \E o \in InitOptions, f \in BOOLEAN : Initialize_Start("t1", o, f)
    \/ Initialize_Wait("t1")
    \/ \E t \in Threads : ThreadProc_Start(t)
    \/ \E t \in Threads : ThreadProc_Enter(t)
    \/ \E t \in Threads : ThreadProc_Discover(t)
    \/ \E t \in Threads : ThreadProc_Load(t)
    \/ \E t \in Workers : ThreadProc_Exit(t)
    \/ \E dt \in DecodeCalls : DisplayTypeNt_Start("t1", dt)
    \/ Query_Enter("t1")
    \/ PDB_DisplayTypeNt_Step("t1")

SpecDecode == Init /\ [][NextDecode]_vars

\* ------------------------------------------------------------------------
\* The text buffer of PDB_DisplayTypeNt: ctxDT.szu8, ctxDT.csz, ctxDT.cszMax
\* and the line buffer ctxDT.wszln, which follows cszMax in PDB_DT_CONTEXT
\* ------------------------------------------------------------------------

\* the lines one rendering commits in this system
MaxLines == 3

\* the sub-sections one rendering appends in this system (the code: up to 7)
MaxSubs == 2

\* the levels a line is rendered at: the top level and a level the BYTE level
\* counter reaches on a chain of nested structs; from level 68 on the indent
\* and the padded name alone fill the line buffer
LineLevels == {0, 130}

\* the lengths of the field names of the debug database
NameLengths == {4, 247, 250}

\* the lengths of the type names of the debug database
TypeLengths == {1, 12}

\* the first characters of the type names of the debug database: "_", "i"
TypeInitials == {95, 105}

\* the lengths of the names of the rendered types
SymLengths == {13}

\* the lengths of the text a nested rendering of a sub-header returns
SubLengths == {100, LocalAllocSize - 1}

\* the lengths of the hex dump of the instance bytes
HexLengths == {76, 38912}

Max(a, b) == IF a > b THEN a ELSE b

Abs(a) == IF a < 0 THEN 0 - a ELSE a

\* _snwprintf_s(buf, size, _TRUNCATE, ...) of a text of n characters: the
\* number of characters written, -1 when the text was truncated
snwprintf_s(size, n) == IF n < size THEN n ELSE 0 - 1

\* Util_snwprintf_u8(buf, size, ...) of a text of n bytes: the bytes written,
\* never more than size - 1 of them
Util_snwprintf_u8(size, n) ==
    IF n < size THEN n ELSE IF size > 0 THEN size - 1 ELSE 0

\* Util_FillHexAscii(pb, cb, 0, sz, &cbHexAscii) of a dump of n bytes: whether
\* the dump and its terminator fit the bytes *pcbHexAscii announces; d is
\* the difference the DWORD cbHexAscii was cast from, and a negative d is a
\* DWORD above 2^31, more than every dump needs
Util_FillHexAscii(d, n) == d < 0 \/ n < d

\* ctxDT->cszMax - ctxDT->csz as the size of a write: with the top word of
\* cszMax set, the size exceeds every text
SizeLeft(b) ==
    IF b.cszMax.top > 0 THEN 2 * LocalAllocSize + b.csz
    ELSE b.cszMax.low - b.csz

\* ctxDT.csz += Util_snwprintf_u8(ctxDT.szu8 + ctxDT.csz,
\*                                ctxDT.cszMax - ctxDT.csz, ...) of n bytes
BufWrite(b, n) ==
    LET w == Util_snwprintf_u8(SizeLeft(b), n)
    IN  [b EXCEPT !.csz  = @ + w,
                  !.over = @ \/ b.csz + w + 1 > LocalAllocSize]

\* the characters of "%*s  +0x%03x %-*s : " for a field at iLevel whose name
\* has cchName characters and whose offset has three hex digits; a negative
\* width 24 - iLevel * 2 pads as its absolute value does
LineHead(iLevel, cchName) ==
    iLevel * 2 + 2 + 3 + 3 + 1 + Max(Abs(24 - iLevel * 2), cchName) + 3

\* the line buffer before the first segment of a line: oln = 0
LineStart == [oln |-> 0, end |-> 0, below |-> FALSE]

\* oln += _snwprintf_s(ctxDT->wszln + oln, MAX_PATH - oln, _TRUNCATE, ...) of
\* a segment of n characters; oln is the QWORD read as a signed number, end
\* is the index of the terminator in wszln, below records a write that began
\* below wszln[0]
Segment(st, n) ==
    LET size == MAX_PATH - st.oln
        r    == snwprintf_s(size, n)
    IN  [oln   |-> st.oln + r,
         end   |-> IF r < 0 THEN st.oln + size - 1 ELSE st.oln + n,
         below |-> st.below \/ st.oln < 0]

\* the value segment "%*s : 0x%02llX" of a one-byte value, padded to
\* max(0, (int)(60 - oln)) characters
ValueSegment(st) == Segment(st, Max(0, 60 - st.oln) + 3 + 4)

\* the segment " - %s" of the characters a _UNICODE_STRING refers to
StringSegment(st) == Segment(st, 3 + 8)

\* the segments of one pass of the loop of PDB_DisplayTypeNt_DoWork up to
\* the commit of the line
LineSegments(iLevel, cchName, fArray, fPtr, fUdt, cchType, fValue, fString) ==
    LET s1 == Segment(LineStart, LineHead(iLevel, cchName))
        s2 == IF fArray THEN Segment(s1, 4) ELSE s1
        s3 == IF fPtr THEN Segment(s2, 5) ELSE s2
        s4 == Segment(s3, cchType)
        s5 == IF fUdt \/ ~fValue THEN s4 ELSE ValueSegment(s4)
    IN  IF fUdt \/ ~fString THEN s5 ELSE StringSegment(s5)

\* one pass of the loop: the segments, then the commit of the line; a
\* segment written at wszln - 1 lands in the top word of ctxDT.cszMax, the
\* field before wszln: behaviour the language leaves undefined, so wch is
\* either the character that landed there or 0 for a build that keeps cszMax
CommitLine(b, st, fUdt, wch) ==
    LET b1 == [b EXCEPT !.below  = @ \/ st.below,
                        !.cszMax = IF st.below /\ wch # 0
                                   THEN QwordTop(wch, @.low) ELSE @,
                        !.n      = @ + 1]
    IN  IF fUdt \/ st.oln # 0 THEN BufWrite(b1, st.end + 1) ELSE b1

\* PDB_DisplayTypeNt up to the call of DoWork: the buffer is allocated and
\* the header line "dt nt!<name>" is written, with the address if the
\* instance bytes were read
Buffer_Header(t) ==
    /\ pc[t] = "idle"
    /\ \E cchSym \in SymLengths, fMem \in BOOLEAN :
         /\ Goto(t, "bf_line")
         /\ loc' = [loc EXCEPT ![t] =
                      [LocIdle EXCEPT !.op  = "DisplayText",
                                      !.buf = BufWrite(BufIdle,
                                                6 + cchSym + 1 + (IF fMem THEN 20 ELSE 0))]]
    /\ UNCHANGED <<pPdbContext, ctx, nCtx, pdbMain, ev, warned>>

\* one pass of the loop of PDB_DisplayTypeNt_DoWork: one line
Buffer_Line(t) ==
    /\ pc[t] = "bf_line"
    /\ loc[t].buf.n < MaxLines
    /\ \E iLevel \in LineLevels, cchName \in NameLengths, cchType \in TypeLengths,
          fArray \in BOOLEAN, fPtr \in BOOLEAN, fUdt \in BOOLEAN,
          fValue \in BOOLEAN, fString \in BOOLEAN, wch \in TypeInitials \cup {0} :
         LET st == LineSegments(iLevel, cchName, fArray, fPtr, fUdt, cchType,
                                fValue, fString)
         IN  /\ Goto(t, "bf_line")
             /\ loc' = [loc EXCEPT ![t].buf = CommitLine(loc[t].buf, st, fUdt, wch)]
    /\ UNCHANGED <<pPdbContext, ctx, nCtx, pdbMain, ev, warned>>

\* the optional hex dump: its header line, then the dump if it fits
\* cbHexAscii = (DWORD)(ctxDT.cszMax - ctxDT.csz), which drops the top word
Buffer_Hex(t) ==
    /\ pc[t] = "bf_line"
    /\ loc[t].buf.csz # 0
    /\ \E n \in HexLengths :
         LET b1 == BufWrite(loc[t].buf, 35)
             cbHexAscii == b1.cszMax.low - b1.csz
             b2 == IF Util_FillHexAscii(cbHexAscii, n)
                   THEN [b1 EXCEPT !.csz  = @ + n,
                                   !.over = @ \/ b1.csz + n + 1 > LocalAllocSize]
                   ELSE b1
         IN  /\ Goto(t, "bf_sub")
             /\ loc' = [loc EXCEPT ![t].buf = b2]
    /\ UNCHANGED <<pPdbContext, ctx, nCtx, pdbMain, ev, warned>>

\* one sub-section of the object header: "\n======\n\n" and the text of the
\* nested rendering
Buffer_Sub(t) ==
    /\ pc[t] \in {"bf_line", "bf_sub"}
    /\ loc[t].buf.k < MaxSubs
    /\ \E n \in SubLengths :
         /\ Goto(t, "bf_sub")
         /\ loc' = [loc EXCEPT ![t].buf = [BufWrite(loc[t].buf, 9 + n)
                                             EXCEPT !.k = @ + 1]]
    /\ UNCHANGED <<pPdbContext, ctx, nCtx, pdbMain, ev, warned>>

\* the output: csz + 1 bytes of ctxDT.szu8 are copied to the result
Buffer_Copy(t) ==
    /\ pc[t] \in {"bf_line", "bf_sub"}
    /\ Done(t, [loc[t] EXCEPT !.retB = loc[t].buf.csz # 0,
                              !.buf.over = @ \/ (loc[t].buf.csz # 0
                                                 /\ loc[t].buf.csz + 1 > LocalAllocSize)])
    /\ UNCHANGED <<pPdbContext, ctx, nCtx, pdbMain, ev, warned>>

NextBuffer ==
    \/ Return("t1")
    \/ Buffer_Header("t1")
    \/ Buffer_Line("t1")
    \/ Buffer_Hex("t1")
    \/ Buffer_Sub("t1")
    \/ Buffer_Copy("t1")

\* the system of one thread that renders types into the text buffer
SpecBuffer == Init /\ [][NextBuffer]_vars

\* ------------------------------------------------------------------------
\* The sub-headers of an object header: the loop that ends PDB_DisplayTypeNt
\* ------------------------------------------------------------------------

\* szSubType by loop index i (at i + 1); the switch names no type for 5, 7
HeaderSubTypes ==
    <<"_OBJECT_HEADER_CREATOR_INFO", "_OBJECT_HEADER_NAME_INFO",
      "_OBJECT_HEADER_HANDLE_INFO", "_OBJECT_HEADER_QUOTA_INFO",
      "_OBJECT_HEADER_PROCESS_INFO", NoName, "_OBJECT_HEADER_AUDIT_INFO",
      NoName, "_POOL_HEADER">>

\* the sizes ctxVmm->offset holds for the sub-headers, by loop index i (at
\* i + 1): of a system that knows them all, of one without audit info, and
\* of one without creator info
OffsetTables ==
    {<<32, 32, 16, 32, 16, 0, 16, 0, 16>>,
     <<32, 32, 16, 32, 16, 0, 0, 0, 16>>,
     <<0, 32, 16, 32, 16, 0, 16, 0, 16>>}

\* the InfoMask bytes of the instances
InfoMasks == 0..255

\* the addresses of the object headers rendered
HeaderAddresses == {Q64(4096, 0, 32768, 65535), Q64(16, 0, 32768, 65535)}

\* (1 << i) & InfoMask
MaskBit(InfoMask, i) == (InfoMask \div (2 ^ i)) % 2 = 1

\* the test that selects loop index i
SubSelected(InfoMask, i) == MaskBit(InfoMask, i) \/ i = 8

\* !cbSubType || !szSubType: the loop ends here
SubUnknown(cb, i) == cb[i + 1] = 0 \/ HeaderSubTypes[i + 1] = NoName

\* vaType -= cbSubType, added instead of subtracted
SubAddress_Forward(vaType, cbSubType) == Add64(vaType, Small64(cbSubType))

\* vaType -= cbSubType
SubAddress(vaType, cbSubType) == Sub64(vaType, Small64(cbSubType))

\* the nested call PDB_DisplayTypeNt(szSubType, 2, vaType, fHexAscii, FALSE,
\* &szSubTypeResult, NULL, NULL) and what it returned
SubCall(szSubType, vaType, fHexAscii, fResult) ==
    [szTypeName |-> szSubType, cLevelMax |-> 2, vaType |-> vaType,
     fHexAscii |-> fHexAscii, fObjHeader |-> FALSE, fResult |-> fResult]

\* PDB_DisplayTypeNt in object-header mode with the instance bytes read
\* reaches the loop over the sub-headers, which it skips when the size of
\* the creator info is unknown
ObjHeader_Start(t) ==
    /\ pc[t] = "idle"
    /\ \E InfoMask \in InfoMasks, cb \in OffsetTables, va \in HeaderAddresses,
          fHexAscii \in BOOLEAN :
         LET r == [LocIdle EXCEPT !.op  = "DisplayHeader",
                                  !.hdr = [HdrIdle EXCEPT !.InfoMask = InfoMask,
                                                          !.cb = cb,
                                                          !.fHexAscii = fHexAscii,
                                                          !.va0 = va,
                                                          !.vaType = va]]
         IN  IF cb[1] = 0
             THEN Done(t, [r EXCEPT !.retB = TRUE])
             ELSE Goto(t, "oh_loop") /\ loc' = [loc EXCEPT ![t] = r]
    /\ UNCHANGED <<pPdbContext, ctx, nCtx, pdbMain, ev, warned>>

\* one pass of the loop over i = 0..8; the text of a nested call that
\* succeeded is appended to the buffer
ObjHeader_Step(t) ==
    /\ pc[t] = "oh_loop"
    /\ LET h == loc[t].hdr
           i == h.i
       IN  \E fResult \in BOOLEAN :
             LET va == SubAddress(h.vaType, h.cb[i + 1])
                 h1 == IF ~SubSelected(h.InfoMask, i) THEN [h EXCEPT !.i = i + 1]
                       ELSE IF SubUnknown(h.cb, i) THEN h
                       ELSE [h EXCEPT !.i = i + 1,
                                      !.vaType = va,
                                      !.calls = Append(@, SubCall(HeaderSubTypes[i + 1],
                                                                  va, h.fHexAscii, fResult))]
                 r  == [loc[t] EXCEPT !.hdr = h1]
             IN  /\ (SubSelected(h.InfoMask, i) /\ ~SubUnknown(h.cb, i)) \/ fResult
                 /\ IF h1.i = i \/ h1.i = 9
                    THEN Done(t, [r EXCEPT !.retB = TRUE])
                    ELSE Goto(t, "oh_loop") /\ loc' = [loc EXCEPT ![t] = r]
    /\ UNCHANGED <<pPdbContext, ctx, nCtx, pdbMain, ev, warned>>

NextHeader ==
    \/ Return("t1")
    \/ ObjHeader_Start("t1")
    \/ ObjHeader_Step("t1")

\* the system of one thread that renders object headers
SpecHeader == Init /\ [][NextHeader]_vars

\* ------------------------------------------------------------------------
\* The two paths of PDB_GetSymbolOffset
\* ------------------------------------------------------------------------

\* Address - ModBase of the one symbol the name matches: 0, 1, 8, 0xffff,
\* 0x10000, 0x0fffffff, 0x10000000, 0x10000001, 0xf0000000, 0xffffffff
SymbolOffsets ==
    {<<0, 0>>, <<1, 0>>, <<8, 0>>, <<65535, 0>>, <<0, 1>>, <<65535, 4095>>,
     <<0, 4096>>, <<1, 4096>>, <<0, 61440>>, <<65535, 65535>>}

\* the symbols a name can stand for in a loaded database: f tells that the
\* database holds one symbol of that name, v is its Address - ModBase.
\* SymEnumSymbols succeeds whether or not it finds a symbol and calls the
\* callback once for the symbol it finds; SymGetTypeFromName succeeds when
\* it finds one.
NamedSymbols ==
    {[f |-> FALSE, v |-> <<0, 0>>]} \cup [f : {TRUE}, v : SymbolOffsets]

\* PDB_GetSymbolOffset for the symbol s of a loaded database on the path of
\* a target whose ctxVmm->f32 is f32
PDB_GetSymbolOffset_Path(s, f32) ==
    PDB_GetSymbolOffset_Result([f |-> s.f, v |-> s.v, f32 |-> f32])

\* thread t asks for the offset of symbol s of the same loaded database on
\* a 32-bit target and on a 64-bit target
GetSymbolOffset_Paths(t) ==
    /\ pc[t] = "idle"
    /\ \E s \in NamedSymbols :
            Done(t, [LocIdle EXCEPT
                        !.op = "GetSymbolOffset",
                        !.paths = << s,
                                     PDB_GetSymbolOffset_Path(s, TRUE),
                                     PDB_GetSymbolOffset_Path(s, FALSE) >>])
    /\ UNCHANGED <<pPdbContext, ctx, nCtx, pdbMain, ev, warned>>

NextPaths ==
    \/ \E t \in Callers : Return(t)
    \/ \E t \in Callers : GetSymbolOffset_Paths(t)

\* the system of two threads that ask for symbol offsets on both paths
SpecPaths == Init /\ [][NextPaths]_vars

\* The system of the address lookups of images mapped at several addresses
NextMapped ==
    \/ \E t \in Callers : Return(t)
    \/ \E o \in InitOptions, f \in BOOLEAN : Initialize_Start("t1", o, f)
    \/ Initialize_Wait("t1")
    \/ \E t \in Threads : ThreadProc_Start(t)
    \/ \E t \in Threads : ThreadProc_Enter(t)
    \/ \E t \in Threads : ThreadProc_Discover(t)
    \/ \E t \in Threads : ThreadProc_Load(t)
    \/ \E t \in Workers : ThreadProc_Exit(t)
    \/ \E t \in Callers, va \in MappedBases, f \in BOOLEAN :
            GetHandleFromModuleAddress(t, va, HalSize, f)
    \/ \E t \in Callers : AddModuleEntry_Enter(t)

SpecMapped == Init /\ [][NextMapped]_vars

\* ------------------------------------------------------------------------
\* Teardown while a worker is dispatched
\* ------------------------------------------------------------------------

\* the worker calls EnterCriticalSection on the lock of a context that
\* PDB_Close has deleted and zeroed after the worker read the pointer. The
\* behaviour is undefined: the process ends, or the call returns as if the
\* lock were taken and the worker goes on; a call that never returns is the
\* worker staying where it is.
ThreadProc_EnterDeleted(t) ==
    /\ pc[t] = "tp_enter"
    /\ ctx[loc[t].ctx].lock.st # "init"
    /\ \/ /\ pc' = [u \in Threads |-> "crashed"]
          /\ UNCHANGED <<ctx, ev>>
       \/ /\ ctx' = [ctx EXCEPT ![loc[t].ctx] = EnterCriticalSection(@, t)]
          /\ ev' = [ev EXCEPT ![loc[t].evt] = SetEvent(@)]
          /\ Goto(t, "tp_disc")
    /\ UNCHANGED <<pPdbContext, nCtx, pdbMain, loc, warned>>

\* The teardown system: a launcher that initializes asynchronously and a
\* second thread that closes or reconfigures the subsystem at any time
NextTeardown ==
    \/ \E t \in Callers : Return(t)
    \/ \E o \in InitOptions : Initialize_Start("t1", o, TRUE)
    \/ Initialize_Wait("t1")
    \/ \E t \in Workers : ThreadProc_Start(t)
    \/ \E t \in Workers : ThreadProc_Enter(t)
    \/ \E t \in Workers : ThreadProc_EnterDeleted(t)
    \/ \E t \in Workers : ThreadProc_Discover(t)
    \/ \E t \in Workers : ThreadProc_Load(t)
    \/ \E t \in Workers : ThreadProc_Exit(t)
    \/ PDB_Close_Begin("t2", "Close")
    \/ PDB_Close_Begin("t2", "ConfigChange")
    \/ Close_Enter("t2")
    \/ ConfigChange_Initialize("t2")

SpecTeardown == Init /\ [][NextTeardown]_vars

\* the debug-info references the launcher hands to PDB_Initialize in the
\* bootstrap system
BootOptions == {NoCv, CvKernel, CvCaller}

\* The bootstrap system: t1 initializes the subsystem with and without a
\* debug-info reference of its own and waits for the bootstrap to
\* complete, while t2 asks for the kernel database and registers a module
NextBoot ==
    \/ \E t \in Callers : Return(t)
    \/ \E o \in BootOptions, f \in BOOLEAN : Initialize_Start("t1", o, f)
    \/ Initialize_Wait("t1")
    \/ \E t \in Threads : ThreadProc_Start(t)
    \/ \E t \in Threads : ThreadProc_Enter(t)
    \/ \E t \in Threads : ThreadProc_Discover(t)
    \/ \E t \in Threads : ThreadProc_Load(t)
    \/ \E t \in Workers : ThreadProc_Exit(t)
    \/ Query_Start("t2", "LoadEnsure", PDB_HANDLE_KERNEL)
    \/ Query_Enter("t2")
    \/ \E a \in LifeRegistrations : AddModuleEntry_Start("t2", a)
    \/ AddModuleEntry_Enter("t2")
    \/ WaitComplete_Start("t1")
    \/ WaitComplete_Enter("t1")

SpecBoot == Init /\ [][NextBoot]_vars

\* a step of thread t inside a call it has begun: a wait that ends, a lock
\* that is granted, a Symbol Backend call that returns
BootProgress(t) ==
    \/ Initialize_Wait(t)
    \/ ThreadProc_Start(t)
    \/ ThreadProc_Enter(t)
    \/ ThreadProc_Discover(t)
    \/ ThreadProc_Load(t)
    \/ t \in Workers /\ ThreadProc_Exit(t)
    \/ Query_Enter(t)
    \/ AddModuleEntry_Enter(t)
    \/ WaitComplete_Enter(t)

\* The bootstrap system under fair scheduling: a thread that can take a
\* step inside its call eventually takes one; nothing obliges a caller to
\* begin a call
SpecBootFair == SpecBoot /\ \A t \in Threads : WF_vars(BootProgress(t))

\* ------------------------------------------------------------------------
\* Properties of the registry
\* ------------------------------------------------------------------------

\* C1: PDB_AddModuleEntry is idempotent. A call for a triple whose
\* fingerprint is already registered returns that fingerprint, which is
\* nonzero and is the handle the Entry was registered under, and leaves the
\* fingerprint index and the number of Entries unchanged; no fingerprint
\* is the key of two Entries.
C1_AddModuleEntryIdempotent ==
    /\ [](\A g \in 1..MaxCtx :
            /\ \A i, j \in 1..Len(ctx[g].pmPdbByHash) :
                 ctx[g].pmPdbByHash[i].k = ctx[g].pmPdbByHash[j].k => i = j
            /\ \A i, j \in 1..Len(ctx[g].ob) :
                 ctx[g].ob[i].qwHash = ctx[g].ob[j].qwHash => i = j)
    /\ [][\A t \in Callers :
            (/\ pc[t] = "add_enter"
             /\ pc'[t] = "done"
             /\ ObMap_ExistsKey(ctx[loc[t].ctx].pmPdbByHash, HashOfArgs(loc[t].a)))
            => LET g == loc[t].ctx
                   qwPdbHash == HashOfArgs(loc[t].a)
               IN  /\ loc'[t].retH = qwPdbHash
                   /\ loc'[t].retH # Zero64
                   /\ loc'[t].retH =
                        ctx[g].ob[ObMap_GetByKey(ctx[g].pmPdbByHash, qwPdbHash)].qwHash
                   /\ ctx'[g].pmPdbByHash = ctx[g].pmPdbByHash
                   /\ Len(ctx'[g].ob) = Len(ctx[g].ob)]_vars

\* C1 witness: a caller has registered an already registered triple and got
\* its fingerprint back
C1_Witness ==
    \E t \in Callers :
        /\ pc[t] = "done"
        /\ loc[t].op = "AddModuleEntry"
        /\ loc[t].existed
        /\ loc[t].retH = HashOfArgs(loc[t].a)

\* the Entries of context memory c registered before Entry j under the
\* module name of Entry j, and Entry j itself
SameModuleName(c, j) ==
    {i \in 1..j : ModuleHashOf(c.ob[i].szModuleName[1]) = ModuleHashOf(c.ob[j].szModuleName[1])}

\* the first Entry registered under the module name of Entry j
FirstOfModuleName(c, j) ==
    CHOOSE i \in SameModuleName(c, j) : \A k \in SameModuleName(c, j) : i <= k

\* C2 (as amended): module-name collision is first-registered-wins. For
\* every Entry F2 registered under a module name after another Entry F1 was
\* registered first under it: the module-name index maps the name to F1,
\* the fingerprint index maps F2's fingerprint to F2, no key of the
\* module-name index leads to F2, and while the subsystem is enabled and F1
\* has not failed to load PDB_GetHandleFromModuleName(name) returns F1.
C2_FirstRegisteredWins ==
    \A g \in 1..MaxCtx : \A j \in 1..Len(ctx[g].ob) :
        LET c == ctx[g]
            i == FirstOfModuleName(c, j)
            szModuleName == c.ob[j].szModuleName
        IN  i # j =>
            /\ ObMap_GetByKey(c.pmPdbByModule, ZExt(ModuleHashOf(szModuleName[1]))) = i
            /\ ObMap_GetByKey(c.pmPdbByHash, c.ob[j].qwHash) = j
            /\ \A m \in 1..Len(c.pmPdbByModule) : c.pmPdbByModule[m].v # j
            /\ \A m \in 1..Len(c.pmPdbByHash) :
                 c.pmPdbByHash[m].v = j => c.pmPdbByHash[m].k = c.ob[j].qwHash
            /\ (pPdbContext = g /\ ~c.fDisabled /\ ~c.ob[i].fLoadFailed)
                 => PDB_GetHandleFromModuleName(szModuleName) = c.ob[i].qwHash

\* C2 witness: two fingerprints are registered under one module name, the
\* subsystem is enabled and the name resolves to the first
C2_Witness ==
    /\ pPdbContext # 0
    /\ ~ctx[pPdbContext].fDisabled
    /\ \E j \in 1..Len(ctx[pPdbContext].ob) :
         LET c == ctx[pPdbContext]
             i == FirstOfModuleName(c, j)
         IN  /\ i # j
             /\ c.ob[i].qwHash # c.ob[j].qwHash
             /\ PDB_GetHandleFromModuleName(c.ob[j].szModuleName) = c.ob[i].qwHash

\* C2 as stated: after F1 then F2 were registered under one module name,
\* PDB_GetHandleFromModuleName(name) returns F1 whenever F1 has not failed
\* to load
C2_AsStated ==
    \A g \in 1..MaxCtx : \A j \in 1..Len(ctx[g].ob) :
        LET c == ctx[g]
            i == FirstOfModuleName(c, j)
        IN  (i # j /\ pPdbContext = g /\ ~c.ob[i].fLoadFailed)
            => PDB_GetHandleFromModuleName(c.ob[j].szModuleName) = c.ob[i].qwHash

\* C3: PDB_GetHandleFromModuleName("nt") and
\* PDB_GetHandleFromModuleName("ntoskrnl") return the same handle in every
\* state
C3_NtIsNtoskrnl ==
    PDB_GetHandleFromModuleName(Str(s_nt)) = PDB_GetHandleFromModuleName(Str(s_ntoskrnl))

\* C3 witness: a caller has looked up "nt" and got the fingerprint that
\* "ntoskrnl" resolves to
C3_Witness ==
    \E t \in Callers :
        /\ pc[t] = "done"
        /\ loc[t].op = "GetHandleFromModuleName"
        /\ loc[t].name = Str(s_nt)
        /\ loc[t].retH # Zero64
        /\ loc[t].retH = PDB_GetHandleFromModuleName(Str(s_ntoskrnl))

\* ------------------------------------------------------------------------
\* Properties of the lazy loader
\* ------------------------------------------------------------------------

\* C4: for every registered Entry, fLoadFailed and a nonzero qwLoadAddress
\* never hold together
C4_LoadStateExclusive ==
    \A g \in 1..MaxCtx : \A i \in 1..Len(ctx[g].ob) :
        ~(ctx[g].ob[i].fLoadFailed /\ ctx[g].ob[i].qwLoadAddress # Zero64)

\* C5: once an Entry is loaded (its qwLoadAddress is nonzero), a later
\* PDB_LoadEnsure on it returns TRUE
C5_LoadedStaysLoaded ==
    [][\A t \in Callers :
         (/\ pc[t] = "q_enter"
          /\ pc'[t] = "done"
          /\ loc[t].op = "LoadEnsure"
          /\ ctx[loc[t].ctx].ob[loc[t].pOb].qwLoadAddress # Zero64)
         => loc'[t].retB]_vars

\* ------------------------------------------------------------------------
\* Properties of the lock and the bootstrap
\* ------------------------------------------------------------------------

\* C6: at most one thread is inside the load step of PDB_LoadEnsureEx at
\* any time, and that thread owns the lock of its context
C6_SingleFlight ==
    /\ Cardinality({t \in Threads : pc[t] = "ex_load"}) <= 1
    /\ \A t \in Threads : pc[t] = "ex_load" => Holds(loc[t].ctx, t)

\* C6 witness: one thread is loading a database while another has called a
\* load-triggering query on the same context and is at its lock
C6_Witness ==
    \E t \in Threads, u \in Callers :
        /\ t # u
        /\ pc[t] = "ex_load"
        /\ pc[u] = "q_enter"
        /\ loc[u].ctx = loc[t].ctx

\* C7: while the context is absent or disabled PDB_GetHandleFromModuleName
\* returns zero for every name and the prologue of every query rejects every
\* handle, and every query that has returned success finds the subsystem
\* enabled
C7_DisabledQueriesFail ==
    /\ (pPdbContext = 0 \/ ctx[pPdbContext].fDisabled)
         => /\ \A n \in LookupNames : PDB_GetHandleFromModuleName(n) = Zero64
            /\ \A kind \in QueryKinds, h \in QueryHandles : Query_Entry(kind, h) = 0
    /\ \A t \in Callers :
         (/\ pc[t] = "done"
          /\ loc[t].op \in QueryKinds \cup {"GetHandleFromModuleName"}
          /\ (loc[t].retB \/ loc[t].retH # Zero64))
         => (pPdbContext # 0 /\ ~ctx[pPdbContext].fDisabled)

\* C7 witness: the kernel Entry is registered, the subsystem is still
\* disabled, and PDB_GetModuleName on the Entry's fingerprint has failed
C7_Witness ==
    /\ pPdbContext # 0
    /\ ctx[pPdbContext].fDisabled
    /\ \E t \in Callers :
         /\ pc[t] = "done"
         /\ loc[t].op = "GetModuleName"
         /\ ObMap_ExistsKey(ctx[pPdbContext].pmPdbByHash, loc[t].h)
         /\ ~loc[t].retB

\* the fingerprint of the kernel's debug-info reference
KernelHash == HashOfArgs(KernelAddArgs(CvKernel))

\* the kernel Entry of context memory c is registered and loaded
KernelLoaded(c) ==
    LET i == ObMap_GetByKey(c.pmPdbByHash, KernelHash)
    IN  /\ i # 0
        /\ c.ob[i].qwLoadAddress # Zero64
        /\ ~c.ob[i].fLoadFailed

\* C8: fDisabled goes from TRUE to FALSE only in a step of the bootstrap,
\* taken while it holds the lock, that ends on its success branch with the
\* kernel Entry registered, found and loaded; the bootstrap reaches the load
\* only with the reference discovered and the Entry registered and found;
\* an enabled context has its kernel Entry loaded; a bootstrap that ended on
\* a failure branch leaves fDisabled TRUE.
C8_EnabledOnlyBySuccessfulBootstrap ==
    /\ []((pPdbContext # 0 /\ ~ctx[pPdbContext].fDisabled) => KernelLoaded(ctx[pPdbContext]))
    /\ [](\A t \in Threads :
            /\ (InThreadProc(t) /\ pc[t] = "ex_load")
                 => /\ loc[t].fPdbInfo
                    /\ loc[t].pOb # 0
                    /\ loc[t].pOb = ObMap_GetByKey(ctx[loc[t].ctx].pmPdbByHash, KernelHash)
                    /\ ctx[loc[t].ctx].fDisabled
            /\ loc[t].branch \in {"nosys", "nodisc", "noreg", "noload"}
                 => ctx[loc[t].ctx].fDisabled)
    /\ [][\A g \in 1..MaxCtx :
            (ctx[g].fMaps /\ ctx[g].fDisabled /\ ~ctx'[g].fDisabled)
            => \E t \in Threads :
                 /\ InThreadProc(t)
                 /\ loc[t].ctx = g
                 /\ Holds(g, t)
                 /\ pc[t] \in {"tp_disc", "ex_load"}
                 /\ loc'[t].branch = "ok"
                 /\ KernelLoaded(ctx'[g])]_vars

\* C8 witness: a worker has ended on its success branch and the subsystem
\* is enabled
C8_Witness ==
    \E t \in Workers :
        /\ pc[t] = "tp_exit"
        /\ loc[t].branch = "ok"
        /\ ~ctx[loc[t].ctx].fDisabled

\* the branches on which the bootstrap ends after taking the lock
BranchesLocked == {"nosys", "nodisc", "noreg", "noload", "ok"}

\* C9: from taking the lock to its end the bootstrap owns the lock, entered
\* once; it gives the lock up only in the step that ends it, on one of the
\* five branches, and after that step it does not own the lock.
C9_BootstrapLockDiscipline ==
    /\ [](\A t \in Threads :
            /\ (InThreadProc(t) /\ pc[t] \in {"tp_disc", "ex_load"})
                 => /\ Holds(loc[t].ctx, t)
                    /\ ctx[loc[t].ctx].lock.cnt = 1
            /\ (pc[t] \in {"tp_exit", "exited"} \/ (pc[t] = "done" /\ loc[t].op = "Initialize"))
                 => \A g \in 1..MaxCtx : ctx[g].lock.owner # t)
    /\ [][\A t \in Threads :
            (InThreadProc(t) /\ Holds(loc[t].ctx, t) /\ ctx'[loc[t].ctx].lock.owner # t)
            => /\ pc'[t] \in {"tp_exit", "done"}
               /\ loc'[t].branch \in BranchesLocked
               /\ ctx'[loc[t].ctx].lock.cnt = 0]_vars

\* C9 witness: a worker has ended on the branch of a missing System process
\* and the lock it held is free
C9_Witness ==
    \E t \in Workers :
        /\ pc[t] = "tp_exit"
        /\ loc[t].branch = "nosys"
        /\ ctx[loc[t].ctx].lock.owner = NoThread
        /\ ctx[loc[t].ctx].lock.cnt = 0

\* another thread owns the lock of the published context
HeldByOther(t) ==
    /\ pPdbContext # 0
    /\ ctx[pPdbContext].lock.owner \notin {NoThread, t}

\* C10 (as amended): a load-triggering query that has passed its prologue
\* goes past EnterCriticalSection only when no other thread owns the lock;
\* a load-triggering query called while another thread owns the lock returns
\* without waiting only when its prologue rejects it (context absent or
\* disabled, handle zero or not registered).
C10_QueryWaitsForLock ==
    [][\A t \in Callers :
         /\ (pc[t] = "q_enter" /\ pc'[t] # "q_enter")
              => ctx[loc[t].ctx].lock.owner \in {NoThread, t}
         /\ (/\ pc[t] = "idle"
             /\ pc'[t] = "done"
             /\ loc'[t].op \in LoadingQueries
             /\ HeldByOther(t))
              => Query_Entry(loc'[t].op, loc'[t].h) = 0]_vars

\* C10 witness: a caller is stopped at the lock of a load-triggering query
\* while another thread owns that lock
C10_Witness ==
    \E t \in Callers :
        /\ pc[t] = "q_enter"
        /\ loc[t].op \in LoadingQueries
        /\ loc[t].ctx = pPdbContext
        /\ HeldByOther(t)

\* C10 as stated: a load-triggering query on a registered Entry, called
\* while another thread (the bootstrap or a load) owns the lock, does not
\* return before the owner has released the lock
C10_AsStated ==
    [][\A t \in Callers :
         (/\ pc[t] = "idle"
          /\ loc'[t].op \in LoadingQueries
          /\ HeldByOther(t)
          /\ ObMap_ExistsKey(ctx[pPdbContext].pmPdbByHash, loc'[t].h))
         => pc'[t] # "done"]_vars

\* ------------------------------------------------------------------------
\* Properties of the lifecycle
\* ------------------------------------------------------------------------

\* the subsystem is present and enabled
Enabled == pPdbContext # 0 /\ ~ctx[pPdbContext].fDisabled

ReturnsFromNameLookup(t) ==
    /\ pc[t] = "idle"
    /\ pc'[t] = "done"
    /\ loc'[t].op = "GetHandleFromModuleName"

\* the Entries the module-name index of context c binds to the name that
\* szModuleName is normalized to
BoundByName(c, szModuleName) ==
    LET szName == IF szModuleName \in {NULL, Str(s_nt)}
                  THEN s_ntoskrnl ELSE szModuleName[1]
    IN  { c.pmPdbByModule[i].v :
            i \in { j \in 1..Len(c.pmPdbByModule) :
                      c.pmPdbByModule[j].k = ZExt(ModuleHashes[szName]) } }

\* C12: PDB_GetHandleFromModuleName returns zero whenever the Entry bound to
\* the normalized module name has its load-failed flag set, and returns that
\* Entry's fingerprint whenever the subsystem is enabled, the name is bound
\* and the flag is not set.
C12_FailedEntryNotHandedOutByName ==
    [][\A t \in Callers :
         ReturnsFromNameLookup(t) =>
            \A g \in 1..MaxCtx : \A i \in BoundByName(ctx[g], loc'[t].name) :
                g = pPdbContext =>
                    /\ ctx[g].ob[i].fLoadFailed => loc'[t].retH = Zero64
                    /\ (~ctx[g].fDisabled /\ ~ctx[g].ob[i].fLoadFailed)
                          => /\ loc'[t].retH = ctx[g].ob[i].qwHash
                             /\ loc'[t].retH # Zero64]_vars

\* C12 witness: a lookup by name has returned zero while the subsystem is
\* enabled and the name is bound to an Entry whose load has failed
C12_Witness ==
    \E t \in Callers :
        /\ pc[t] = "done"
        /\ loc[t].op = "GetHandleFromModuleName"
        /\ loc[t].retH = Zero64
        /\ Enabled
        /\ \E i \in BoundByName(ctx[pPdbContext], loc[t].name) :
                ctx[pPdbContext].ob[i].fLoadFailed

\* an Entry of the published context has module base vaModuleBase
BoundToBase(vaModuleBase) ==
    \E i \in 1..Len(ctx[pPdbContext].ob) :
        ctx[pPdbContext].ob[i].vaModuleBase = vaModuleBase

\* thread t makes the first step of PDB_GetHandleFromModuleAddress, for a
\* module base that no Entry of the published context is bound to
AsksUnboundBase(t) ==
    /\ pc[t] = "idle"
    /\ pc'[t] # "idle"
    /\ loc'[t].op = "GetHandleFromModuleAddress"
    /\ pPdbContext # 0
    /\ ~BoundToBase(loc'[t].va)

\* C13: PDB_GetHandleFromModuleAddress refuses implausible modules. When no
\* Entry is bound to the module base and PE Introspection reports an image
\* size of 0 or of more than 0x04000000, it returns zero, does not ask for
\* the debug-info reference and registers nothing; a size of exactly
\* 0x04000000 is accepted: the reference is asked for and, when it is found,
\* the module is registered with that size.
C13_ImplausibleSizeRefused ==
    [][\A t \in Callers :
         /\ AsksUnboundBase(t) =>
              /\ loc'[t].cb \in {Zero64, Q64(1, 1024, 0, 0)} =>
                    /\ pc'[t] = "done"
                    /\ loc'[t].retH = Zero64
                    /\ loc'[t].pe = <<"PE_GetSize">>
                    /\ ctx' = ctx
              /\ loc'[t].cb \in {HalSize, Q64(0, 1024, 0, 0)} =>
                    /\ loc'[t].pe = <<"PE_GetSize", "PE_GetCodeViewInfo">>
                    /\ pc'[t] = "add_enter" => loc'[t].a.cbModuleSize = loc'[t].cb
         /\ (/\ pc[t] = "add_enter"
             /\ pc'[t] = "done"
             /\ loc[t].op = "GetHandleFromModuleAddress"
             /\ loc'[t].retH # Zero64)
              => \E i \in 1..Len(ctx'[loc[t].ctx].ob) :
                    /\ ctx'[loc[t].ctx].ob[i].qwHash = loc'[t].retH
                    /\ loc'[t].existed
                         \/ ctx'[loc[t].ctx].ob[i].cbModuleSize = loc[t].cb]_vars

\* C13 witness: a module of exactly 0x04000000 bytes has been registered by
\* its address, and a lookup of another, unbound module base that reported
\* 0x04000001 bytes has returned zero after the size query alone
C13_Witness ==
    /\ pPdbContext # 0
    /\ \E i \in 1..Len(ctx[pPdbContext].ob) :
          /\ ctx[pPdbContext].ob[i].vaModuleBase = HalBase
          /\ ctx[pPdbContext].ob[i].cbModuleSize = Q64(0, 1024, 0, 0)
    /\ pc["t1"] = "done"
    /\ loc["t1"].op = "GetHandleFromModuleAddress"
    /\ loc["t1"].va = KernelBase
    /\ ~BoundToBase(KernelBase)
    /\ loc["t1"].cb = Q64(1, 1024, 0, 0)
    /\ loc["t1"].pe = <<"PE_GetSize">>
    /\ loc["t1"].retH = Zero64

\* thread t makes the first step of a handle-taking query
CallsQuery(t) ==
    /\ pc[t] = "idle"
    /\ pc'[t] # "idle"
    /\ loc'[t].op \in HandleQueries

\* h is not the fingerprint of an Entry of the published context
NotRegistered(h) ==
    \/ pPdbContext = 0
    \/ \A i \in 1..Len(ctx[pPdbContext].pmPdbByHash) :
          ctx[pPdbContext].pmPdbByHash[i].k # h

\* C14: a handle-taking query called with handle zero, or with a fingerprint
\* that is not in the fingerprint index, returns failure silently: it does
\* not acquire the lock, makes no Symbol Backend call, prints no warning and
\* leaves the indices, every Entry's load state and the slot counter
\* unchanged. (The reserved kernel handle is not a fingerprint.)
C14_UnknownHandleFailsSilently ==
    [][\A t \in Callers :
         (/\ CallsQuery(t)
          /\ loc'[t].h # PDB_HANDLE_KERNEL
          /\ loc'[t].h = Zero64 \/ NotRegistered(loc'[t].h))
         => /\ pc'[t] = "done"
            /\ ~loc'[t].retB
            /\ ctx' = ctx
            /\ warned' = warned]_vars

\* C14 witness: with the subsystem enabled and an Entry registered, a query
\* that loads on demand has returned failure for an unregistered fingerprint
C14_Witness ==
    /\ Enabled
    /\ Len(ctx[pPdbContext].ob) > 1
    /\ pc["t1"] = "done"
    /\ loc["t1"].op = "GetTypeSize"
    /\ loc["t1"].h = UnknownHandle
    /\ ~loc["t1"].retB

\* thread t returns from query kind in this step
ReturnsFrom(t, kind) ==
    /\ pc[t] # "done"
    /\ pc'[t] = "done"
    /\ loc'[t].op = kind

\* C15: the 16-bit query variants never return a value that differs from
\* the full-width result: PDB_GetTypeSizeShort and
\* PDB_GetTypeChildOffsetShort succeed exactly when the full variant succeeds
\* with a value of at most 0xFFFF and then return that same value; otherwise
\* they fail and write nothing.
C15_ShortVariantsNeverTruncate ==
    [][\A t \in Callers : \A kind \in {"GetTypeSizeShort", "GetTypeChildOffsetShort"} :
         ReturnsFrom(t, kind) =>
            LET r == loc'[t]
                fits == r.dw[2] = 0  \* the DWORD is at most 0xFFFF
            IN  /\ r.retB <=> (r.fFull /\ fits)
                /\ r.retB => (r.fOut /\ r.out = Q64(r.dw[1], r.dw[2], 0, 0))
                /\ ~r.retB => ~r.fOut]_vars

\* C15 witness: PDB_GetTypeSizeShort has failed, without writing, for a type
\* whose full-width size is 0x10000
C15_Witness ==
    /\ pc["t1"] = "done"
    /\ loc["t1"].op = "GetTypeSizeShort"
    /\ loc["t1"].fFull
    /\ loc["t1"].dw = <<0, 1>>
    /\ ~loc["t1"].retB
    /\ ~loc["t1"].fOut

\* the Entries of context c that handle h identifies
IdentifiedBy(c, h) ==
    IF h = PDB_HANDLE_KERNEL THEN BoundByName(c, Str(s_ntoskrnl))
    ELSE { i \in 1..Len(c.ob) : c.ob[i].qwHash = h }

\* C16: whenever PDB_GetSymbolAddress succeeds for handle h, the address it
\* returns is the module base of the Entry identified by h plus the offset
\* that PDB_GetSymbolOffset returned for h and the symbol name, added as
\* 64-bit numbers; it fails whenever PDB_GetSymbolOffset fails.
C16_SymbolAddressIsBasePlusOffset ==
    [][\A t \in Callers :
         ReturnsFrom(t, "GetSymbolAddress") =>
            LET r == loc'[t]
            IN  /\ ~r.fFull => ~r.retB
                /\ r.retB =>
                     /\ r.fOut
                     /\ \E i \in IdentifiedBy(ctx[pPdbContext], r.h) :
                            r.out = Add64(ctx[pPdbContext].ob[i].vaModuleBase,
                                          Q64(r.dw[1], r.dw[2], 0, 0))]_vars

\* C16 witness: PDB_GetSymbolAddress has succeeded for a symbol at offset
\* 0xf0000000 of the module at HalBase, where the addition carries into
\* the high half of the address
C16_Witness ==
    /\ pc["t1"] = "done"
    /\ loc["t1"].op = "GetSymbolAddress"
    /\ loc["t1"].retB
    /\ loc["t1"].dw = <<0, 61440>>
    /\ loc["t1"].out = Q64(0, 0, 2049, 65535)
    /\ \E i \in IdentifiedBy(ctx[pPdbContext], loc["t1"].h) :
          ctx[pPdbContext].ob[i].vaModuleBase = HalBase

\* ------------------------------------------------------------------------
\* Properties of the type display
\* ------------------------------------------------------------------------

\* the lines of the text of a call of PDB_DisplayTypeNt
LinesOf(text) == SelectSeq(text, LAMBDA x : x.kind = "line")

\* C17: in every call of PDB_DisplayTypeNt the calls of
\* PDB_DisplayTypeNt_DoWork in progress are never more than cLevelMax + 1,
\* each runs at the level that is its nesting depth (the BYTE counter has
\* not wrapped) and every line is written at a depth of at most cLevelMax;
\* with cLevelMax = 0 a call that succeeds has written exactly one line for
\* each child of the type asked for, nested structs included, and nothing
\* below them.
C17_RecursionDepthBounded ==
    \A t \in Callers :
        loc[t].op = "DisplayTypeNt" =>
            LET r == loc[t]
                ti == NamedTypes[r.dt.szTypeName]
            IN  /\ Len(r.stack) <= r.dt.cLevelMax + 1
                /\ \A k \in 1..Len(r.stack) : r.stack[k].iLevel = k - 1
                /\ \A j \in 1..Len(r.text) :
                      r.text[j].kind \in {"call", "line"} =>
                          /\ r.text[j].depth <= r.dt.cLevelMax
                          /\ r.text[j].lvl = r.text[j].depth
                /\ (/\ pc[t] = "done"
                    /\ r.retB
                    /\ r.dt.cLevelMax = 0
                    /\ ti \notin r.dt.fail)
                   => /\ Len(LinesOf(r.text)) = Len(TypeDb[ti].children)
                      /\ \A i \in 1..Len(TypeDb[ti].children) :
                            /\ LinesOf(r.text)[i].parent = ti
                            /\ LinesOf(r.text)[i].i = i
                            /\ LinesOf(r.text)[i].name = TypeDb[ti].children[i].wszName

\* C17 witness: PDB_DisplayTypeNt has succeeded with cLevelMax = 255 on a
\* type nested deeper than 256 levels: the line of the nested struct at
\* depth 255 is written and nothing is written below it
C17_Witness ==
    /\ pc["t1"] = "done"
    /\ loc["t1"].op = "DisplayTypeNt"
    /\ loc["t1"].retB
    /\ loc["t1"].dt.cLevelMax = 255
    /\ \E j \in 1..Len(loc["t1"].text) :
          /\ loc["t1"].text[j].kind = "line"
          /\ loc["t1"].text[j].depth = 255
          /\ loc["t1"].text[j].tag = "SymTagUDT"
          /\ Len(TypeDb[TypeDb[loc["t1"].text[j].parent].children[1].dwTypeIndex].children) # 0

\* C18: each bitfield of width w is rendered as bit[c : c+w-1]; c is 0 for
\* the first field of a struct, and after a bitfield that ended at bit e of
\* storage of the same size it is e + 1, unless e + 1 has reached the width
\* of the storage, and 0 when the storage size has changed. So the 1-byte
\* bitfields of widths 3, 5 and 4 of _BITS render [0:2], [3:7] and [0:3].
C18_BitfieldCursor ==
    \A t \in Callers :
        loc[t].op = "DisplayTypeNt" =>
            LET L == LinesOf(loc[t].text)
                Last(k) == CHOOSE j \in 1..(k - 1) :
                              /\ L[j].depth = L[k].depth
                              /\ L[j].parent = L[k].parent
                              /\ L[j].i = L[k].i - 1
                              /\ \A m \in (j + 1)..(k - 1) : L[m].depth > L[k].depth
            IN  /\ \A k \in 1..Len(L) :
                      L[k].bit # <<>> =>
                          /\ L[k].bit[2] = L[k].bit[1]
                                + TypeDb[L[k].parent].children[L[k].i].qwBitFieldLength - 1
                          /\ L[k].i = 1 => L[k].bit[1] = 0
                          /\ (L[k].i > 1 /\ L[Last(k)].bit # <<>>) =>
                                L[k].bit[1] =
                                    IF /\ L[Last(k)].cb = L[k].cb
                                       /\ L[Last(k)].bit[2] + 1 < 8 * L[k].cb
                                    THEN L[Last(k)].bit[2] + 1
                                    ELSE 0
                /\ (/\ loc[t].dt.szTypeName = "_BITS"
                    /\ Len(L) >= 3)
                   => /\ L[1].bit = <<0, 2>>
                      /\ L[2].bit = <<3, 7>>
                      /\ L[3].bit = <<0, 3>>

\* C18 witness: PDB_DisplayTypeNt has rendered _BITS: the third 1-byte
\* bitfield after the byte was full, and the two 2-byte bitfields after the
\* storage size changed
C18_Witness ==
    /\ pc["t1"] = "done"
    /\ loc["t1"].op = "DisplayTypeNt"
    /\ loc["t1"].retB
    /\ loc["t1"].dt.szTypeName = "_BITS"
    /\ Len(LinesOf(loc["t1"].text)) = 5
    /\ LinesOf(loc["t1"].text)[2].bit = <<3, 7>>
    /\ LinesOf(loc["t1"].text)[3].bit = <<0, 3>>
    /\ LinesOf(loc["t1"].text)[4].bit = <<0, 5>>
    /\ LinesOf(loc["t1"].text)[5].bit = <<6, 9>>

\* the text the claim puts on line k of lines L, the line of the third
\* child of a _UNICODE_STRING rendered with memory bytes, given the values
\* decoded on the lines of its first and third child: <<>> is none
DecodedString(L, k) ==
    LET cbData == L[k - 2].val[1] + 256 * L[k - 2].val[2]
        vaData == Q64(L[k].val[1] + 256 * L[k].val[2], L[k].val[3] + 256 * L[k].val[4],
                      L[k].val[5] + 256 * L[k].val[6], L[k].val[7] + 256 * L[k].val[8])
    IN  IF VMM_KADDR(vaData) /\ cbData # 0 /\ cbData % 2 = 0 /\ cbData < 260 * 2
        THEN ReadText(vaData, cbData)
        ELSE <<>>

\* the lines k of L that are the third child of a _UNICODE_STRING rendered
\* with memory bytes
StringLines(L) ==
    {k \in 3..Len(L) : /\ L[k].parent = TI.UnicodeString
                        /\ L[k].i = 3
                        /\ L[k].val # <<>>}

\* C19 as stated: whenever a _UNICODE_STRING is rendered with memory bytes,
\* as the top-level type or as a nested field, the line of its third child
\* carries the decoded string when the length is nonzero, even and below
\* the bound, the pointer is a kernel address and the read succeeds, and
\* carries nothing otherwise.
C19_AsStated ==
    \A t \in Callers :
        loc[t].op = "DisplayTypeNt" =>
            \A k \in StringLines(LinesOf(loc[t].text)) :
                LinesOf(loc[t].text)[k].str = DecodedString(LinesOf(loc[t].text), k)

\* thread t has returned from a call of PDB_DisplayTypeNt made with the
\* subsystem enabled and the kernel database loaded
DisplayReturned(t) ==
    /\ pc[t] = "done"
    /\ loc[t].op = "DisplayTypeNt"
    /\ loc[t].ctx # 0
    /\ ctx[loc[t].ctx].ob[loc[t].pOb].qwLoadAddress # Zero64
    /\ ~ctx[loc[t].ctx].ob[loc[t].pOb].fLoadFailed

\* the top-level type lookup of the call r has failed: SymGetTypeFromName
\* fails or finds no struct
LookupFailed(r) ==
    \/ ~r.fSym
    \/ r.dt.szTypeName \notin DOMAIN NamedTypes
    \/ TypeDb[NamedTypes[r.dt.szTypeName]].dwTag # "SymTagUDT"

\* the fetch of the child count of the top-level type of the call r has
\* failed or found no child
ChildCountFailed(r) ==
    \/ ~r.dt.fChildCount
    \/ TypeDb[NamedTypes[r.dt.szTypeName]].children = <<>>

\* the allocation of the text buffer or of the copy for the caller has
\* failed in the call r
BufferAllocationFailed(r) == r.dt.alloc \in {"szu8", "result"}

\* the records of kind in text that are about type ti at depth d
RecordsOf(text, kind, ti, d) ==
    {j \in 1..Len(text) :
        /\ text[j].kind = kind
        /\ text[j].depth = d
        /\ (IF kind = "line" THEN text[j].parent ELSE text[j].ti) = ti}

\* in the text of the call r every call of PDB_DisplayTypeNt_DoWork whose
\* requests succeed has written the line of each child of its type, and
\* one whose requests fail has written none
OnlyFailedSubtreesMissing(r) ==
    \A ti \in DOMAIN TypeDb, d \in 0..r.dt.cLevelMax :
        Cardinality(RecordsOf(r.text, "line", ti, d)) =
            IF ti \in r.dt.fail THEN 0
            ELSE Len(TypeDb[ti].children)
                    * Cardinality(RecordsOf(r.text, "call", ti, d))

\* C20 as stated: a call of PDB_DisplayTypeNt made with the subsystem
\* enabled and the kernel database loaded returns, and it returns FALSE only
\* if the top-level type lookup, the fetch of its child count or a buffer
\* allocation has failed; otherwise it returns TRUE with the text of every
\* subtree whose requests to the Symbol Backend succeeded, whatever
\* requests failed inside PDB_DisplayTypeNt_DoWork. No call writes through
\* a NULL buffer or ends the process.
C20_AsStated ==
    \A t \in Callers :
        /\ pc[t] # "crashed"
        /\ ~loc[t].ub
        /\ DisplayReturned(t) =>
              IF LookupFailed(loc[t]) \/ ChildCountFailed(loc[t])
                 \/ BufferAllocationFailed(loc[t])
              THEN ~loc[t].retB
              ELSE /\ loc[t].retB
                   /\ loc[t].text[1].kind = "hdr"
                   /\ OnlyFailedSubtreesMissing(loc[t])

\* ------------------------------------------------------------------------
\* Properties of the bootstrap
\* ------------------------------------------------------------------------

\* thread t takes the step of the bootstrap from VmmProcessGet to the load
BootstrapDiscovers(t) == pc[t] = "tp_disc" /\ pc'[t] # "tp_disc"

\* the Entries of context memory c that carry the debug-info reference cv
EntriesOfReference(c, cv) ==
    {i \in 1..Len(c.ob) : /\ c.ob[i].szName = Str(cv.PdbFileName)
                           /\ c.ob[i].pbGUID = cv.Guid
                           /\ c.ob[i].dwAge = cv.Age}

\* C21: in every run of the bootstrap PE Introspection is invoked only when
\* the launcher supplied no debug-info reference, and the signature scan
\* only when, in addition, PE Introspection was invoked before it and
\* failed; when the launcher supplied a reference and the bootstrap gets
\* past the registration, the Entry it registered and loads carries that
\* reference.
C21_DiscoveryFallbackOrder ==
    [][\A t \in Threads :
         BootstrapDiscovers(t) =>
            LET d == loc'[t].disc
                c == ctx'[loc[t].ctx]
            IN  /\ d # <<>> => (~loc[t].fPdbInfo /\ d[1].step = "pe")
                /\ Len(d) <= 2
                /\ Len(d) = 2 => (d[2].step = "scan" /\ ~d[1].f)
                /\ (loc[t].fPdbInfo /\ loc'[t].branch \in {"ok", "noload"}) =>
                      /\ EntriesOfReference(c, loc[t].cv) # {}
                      /\ ObMap_GetByKey(c.pmPdbByHash,
                                        HashOfArgs(KernelAddArgs(loc[t].cv)))
                            \in EntriesOfReference(c, loc[t].cv)
                /\ (loc[t].fPdbInfo /\ pc'[t] = "ex_load") =>
                      loc'[t].pOb \in EntriesOfReference(c, loc[t].cv)]_vars

\* C21 witness: a bootstrap run whose launcher supplied a reference that
\* differs from the one in the kernel image has enabled the subsystem with
\* no discovery step invoked and with the launcher's reference registered
C21_Witness ==
    \E t \in Threads :
        /\ loc[t].branch = "ok"
        /\ loc[t].cv = CvCaller
        /\ loc[t].disc = <<>>
        /\ EntriesOfReference(ctx[loc[t].ctx], CvCaller) # {}
        /\ EntriesOfReference(ctx[loc[t].ctx], CvKernel) = {}

\* the threads that run the bootstrap launched with event g and have not
\* left it: the worker, or the launcher itself when it is synchronous
BootstrapThreads(g) ==
    {t \in Threads : /\ InThreadProc(t)
                     /\ loc[t].evt = g
                     /\ pc[t] \in {"tp_start", "tp_enter", "tp_disc", "ex_load"}}

\* the launcher of context g saw its event signalled: the event is set and
\* not yet closed, or PDB_Initialize has returned from a wait that ended
\* with the event set
ObservedStarted(g) ==
    \/ ev[g] = "set"
    \/ \E t \in Callers : /\ pc[t] = "done"
                          /\ loc[t].op = "Initialize"
                          /\ loc[t].evt = g
                          /\ loc[t].retB

\* C22: whenever the "started" event of a bootstrap is signalled, or its
\* launcher has returned having seen it signalled, the bootstrap worker
\* holds the lock of the context or has finished the bootstrap; while it
\* has not finished no other thread holds that lock.
C22_StartedOnlyUnderLock ==
    \A g \in 1..MaxCtx :
        ObservedStarted(g) =>
            \A w \in BootstrapThreads(g) :
                /\ Holds(g, w)
                /\ \A t \in Threads \ {w} : ~Holds(g, t)

\* C22 witness: the launcher has returned from an asynchronous
\* PDB_Initialize that saw the event signalled while the worker is still
\* inside the load and a registration of the other thread waits for the
\* lock
C22_Witness ==
    \E g \in 1..MaxCtx :
        /\ pc["t1"] = "done" /\ loc["t1"].op = "Initialize"
        /\ loc["t1"].evt = g /\ loc["t1"].retB
        /\ pc[WorkerOf(g)] = "ex_load"
        /\ Holds(g, WorkerOf(g))
        /\ pc["t2"] = "add_enter"

\* thread t has returned from a PDB_Initialize_WaitComplete that was called
\* after an asynchronous PDB_Initialize had launched the worker of context g
WaitCompleteReturned(t, g) ==
    /\ pc[t] = "done"
    /\ loc[t].op = "WaitComplete"
    /\ loc[t].ctx = g
    /\ pc[WorkerOf(g)] # "unborn"

\* C23: whenever PDB_Initialize_WaitComplete returns after an asynchronous
\* PDB_Initialize, the bootstrap worker has left the bootstrap, enabled or
\* failed, and the disabled flag is clear exactly when it ended enabled.
C23_AsStated ==
    \A t \in Callers, g \in 1..MaxCtx :
        WaitCompleteReturned(t, g) =>
            /\ pc[WorkerOf(g)] \in {"tp_exit", "exited"}
            /\ pc[WorkerOf(g)] = "tp_exit" =>
                  (ctx[g].fDisabled <=> loc[WorkerOf(g)].branch # "ok")

\* thread t is inside a call or inside the bootstrap
InCall(t) == pc[t] \notin {"idle", "done", "unborn", "exited", "crashed"}

\* thread t is in no call: it has returned or its worker has ended
Returned(t) == pc[t] \in {"done", "idle", "exited"}

C24_Witness ==
    \E g \in 1..MaxCtx :
        /\ pc["t1"] = "init_wait"
        /\ pc[WorkerOf(g)] = "ex_load"
        /\ Holds(g, WorkerOf(g))
        /\ pc["t2"] = "add_enter"

\* ------------------------------------------------------------------------
\* Properties of the load slots and the lock
\* ------------------------------------------------------------------------

\* the threads that complete the SymLoadModuleEx step of a load in
\* context g in this step
LoadRequests(g) ==
    {t \in Threads : pc[t] = "ex_load" /\ pc'[t] # "ex_load" /\ loc[t].exCtx = g}

\* the Entries of context memory c that hold a loaded database
LoadedEntries(c) == {i \in 1..Len(c.ob) : c.ob[i].qwLoadAddress # Zero64}

\* C25: the slot counter of a context is the fixed base when the context is
\* published; afterwards a step changes it exactly when the step completes
\* a SymLoadModuleEx request, successful or not, and then by one stride
\* upwards; a failed SymFindFileInPath leaves it alone; the loaded Entries
\* of a context have pairwise different slot bases, all below the counter.
C25_SlotCounter ==
    [][\A g \in 1..MaxCtx :
         LET old == ctx[g].qwLoadAddressNext
             new == ctx'[g].qwLoadAddressNext
         IN  /\ (ctx[g].lock.st = "none" /\ ctx'[g].lock.st = "init") =>
                   new = VMMWIN_PDB_LOAD_ADDRESS_BASE
             /\ (ctx[g].lock.st = "init" /\ ctx'[g].lock.st = "init") =>
                   IF LoadRequests(g) # {}
                   THEN new = Add64(old, VMMWIN_PDB_LOAD_ADDRESS_STEP) /\ Gt64(new, old)
                   ELSE new = old
             /\ \A i \in 1..Len(ctx[g].ob) :
                   (ctx'[g].ob[i].nFind > ctx[g].ob[i].nFind /\ ctx'[g].ob[i].fLoadFailed)
                       => new = old
             /\ \A i \in LoadedEntries(ctx'[g]) :
                   /\ Gt64(new, ctx'[g].ob[i].qwLoadAddress)
                   /\ \A j \in LoadedEntries(ctx'[g]) \ {i} :
                         ctx'[g].ob[j].qwLoadAddress # ctx'[g].ob[i].qwLoadAddress]_vars

\* C25 witness: a context whose first slot holds the kernel database and
\* whose second slot was consumed by a load request that failed
C25_Witness ==
    \E g \in 1..MaxCtx :
        LET c == ctx[g]
        IN  /\ c.qwLoadAddressNext =
                  Add64(Add64(VMMWIN_PDB_LOAD_ADDRESS_BASE, VMMWIN_PDB_LOAD_ADDRESS_STEP),
                        VMMWIN_PDB_LOAD_ADDRESS_STEP)
            /\ \E i \in 1..Len(c.ob) :
                  c.ob[i].qwLoadAddress = VMMWIN_PDB_LOAD_ADDRESS_BASE
            /\ \E i \in 1..Len(c.ob) :
                  c.ob[i].nLoad = 1 /\ c.ob[i].qwLoadAddress = Zero64

\* thread t is in no call and not inside the bootstrap
Outside(t) == pc[t] \in {"idle", "done", "unborn", "tp_exit", "exited"}

\* the lock of context g is free
LockFree(g) == ctx[g].lock.owner = NoThread /\ ctx[g].lock.cnt = 0

\* C26: a thread that has returned from an entry point, or from the
\* bootstrap, holds the lock of no context, on whatever path it returned;
\* the hold count is zero exactly when the lock has no owner; when every
\* thread has returned every lock is free.
C26_LockReleasedOnReturn ==
    /\ \A t \in Threads : Outside(t) => \A g \in 1..MaxCtx : ctx[g].lock.owner # t
    /\ \A g \in 1..MaxCtx : (ctx[g].lock.owner = NoThread) <=> (ctx[g].lock.cnt = 0)
    /\ (\A t \in Threads : Outside(t)) => \A g \in 1..MaxCtx : LockFree(g)

\* C26 witness: a query has returned FALSE from a backend failure on a
\* loaded database, after the other thread's query failed in its load, and
\* the lock is free
C26_Witness ==
    /\ pc["t1"] = "done" /\ loc["t1"].op = "GetTypeSize" /\ ~loc["t1"].retB
    /\ loc["t1"].ctx # 0 /\ loc["t1"].pOb # 0
    /\ ctx[loc["t1"].ctx].ob[loc["t1"].pOb].qwLoadAddress # Zero64
    /\ pc["t2"] = "done" /\ loc["t2"].op = "LoadEnsure" /\ ~loc["t2"].retB
    /\ loc["t2"].ctx # 0 /\ loc["t2"].pOb # 0
    /\ ctx[loc["t2"].ctx].ob[loc["t2"].pOb].nLoad = 1
    /\ ctx[loc["t2"].ctx].ob[loc["t2"].pOb].fLoadFailed
    /\ \A t \in Threads : Outside(t)
    /\ LockFree(loc["t1"].ctx)

\* the load-state fields of the Entries of context memory c
LoadState(c) ==
    [i \in 1..Len(c.ob) |->
        <<c.ob[i].fLoadFailed, c.ob[i].szPath, c.ob[i].qwLoadAddress>>]

\* this step writes an index, the slot counter or a load-state field of
\* context g, which is published before and after the step
WritesRegistry(g) ==
    /\ ctx[g].lock.st = "init" /\ ctx'[g].lock.st = "init"
    /\ \/ ctx'[g].pmPdbByHash # ctx[g].pmPdbByHash
       \/ ctx'[g].pmPdbByModule # ctx[g].pmPdbByModule
       \/ ctx'[g].qwLoadAddressNext # ctx[g].qwLoadAddressNext
       \/ Len(ctx'[g].ob) # Len(ctx[g].ob)
       \/ LoadState(ctx'[g]) # LoadState(ctx[g])

\* thread t takes this step
Moves(t) == pc'[t] # pc[t] \/ loc'[t] # loc[t]

\* C27: every step that writes an index, the slot counter or a load-state
\* field of a published context is taken by one thread, and no other thread
\* owns the lock of that context before or after the step: the writer holds
\* the lock from before the step, or takes it within the step and has left
\* it or still holds it afterwards.
C27_WritesUnderLock ==
    [][\A g \in 1..MaxCtx :
         WritesRegistry(g) =>
            \E t \in Threads :
                /\ Moves(t)
                /\ \A u \in Threads \ {t} : ~Moves(u)
                /\ ctx[g].lock.owner \in {NoThread, t}
                /\ ctx'[g].lock.owner \in {NoThread, t}
                /\ pc[t] \in {"ex_load", "tp_disc"} => Holds(g, t)]_vars

\* C27 witness: a registration of one thread has added a second Entry to
\* both indices while the other thread waits for the lock, after the
\* bootstrap worker loaded the kernel database
C27_Witness ==
    \E g \in 1..MaxCtx :
        /\ Len(ctx[g].pmPdbByHash) = 2
        /\ Len(ctx[g].pmPdbByModule) = 2
        /\ pc["t1"] = "done" /\ loc["t1"].op = "AddModuleEntry" /\ ~loc["t1"].existed
        /\ pc["t2"] = "q_enter"
        /\ pc[WorkerOf(g)] = "exited"
        /\ \E i \in 1..Len(ctx[g].ob) : ctx[g].ob[i].qwLoadAddress # Zero64

\* ------------------------------------------------------------------------
\* Properties of the Entries' references
\* ------------------------------------------------------------------------

\* the number of indices of context memory c that hold Entry i
IndicesHolding(c, i) ==
    (IF \E m \in 1..Len(c.pmPdbByHash) : c.pmPdbByHash[m].v = i THEN 1 ELSE 0)
    + (IF \E m \in 1..Len(c.pmPdbByModule) : c.pmPdbByModule[m].v = i THEN 1 ELSE 0)

\* the references to Entry i of context g that threads inside a call hold
Borrowers(g, i) ==
    {t \in Threads : ~Outside(t) /\ loc[t].ctx = g /\ loc[t].pOb = i}

\* C28: while a context is published its fingerprint index only grows at
\* the end and no Entry leaves it; every Entry's reference count is the
\* number of indices that hold it plus one for each thread that has
\* borrowed it inside a call, so that with no call in progress it is the
\* number of indices that hold it.
C28_ReferencesReturned ==
    /\ [][\A g \in 1..MaxCtx :
            (ctx[g].lock.st = "init" /\ ctx'[g].lock.st = "init") =>
               /\ Len(ctx'[g].pmPdbByHash) >= Len(ctx[g].pmPdbByHash)
               /\ SubSeq(ctx'[g].pmPdbByHash, 1, Len(ctx[g].pmPdbByHash))
                     = ctx[g].pmPdbByHash]_vars
    /\ [](\A g \in 1..MaxCtx : \A i \in 1..Len(ctx[g].ob) :
            /\ ctx[g].ob[i].cRef =
                  IndicesHolding(ctx[g], i) + Cardinality(Borrowers(g, i))
            /\ (\A t \in Threads : Outside(t)) =>
                  ctx[g].ob[i].cRef = IndicesHolding(ctx[g], i))

\* C28 witness: no call is in progress in a context with two Entries, one
\* in both indices and one whose module name was taken so that only the
\* fingerprint index holds it, after queries that failed and succeeded
C28_Witness ==
    \E g \in 1..MaxCtx :
        /\ \A t \in Threads : Outside(t)
        /\ \E i \in 1..Len(ctx[g].ob) : ctx[g].ob[i].cRef = 2 /\ ctx[g].ob[i].nLoad = 1
        /\ \E i \in 1..Len(ctx[g].ob) : ctx[g].ob[i].cRef = 1
        /\ pc["t1"] = "done" /\ loc["t1"].pOb # 0 /\ ~loc["t1"].retB
        /\ pc["t2"] = "done" /\ loc["t2"].pOb # 0 /\ loc["t2"].retB

\* ------------------------------------------------------------------------
\* Properties of the bootstrap's diagnostics
\* ------------------------------------------------------------------------

\* thread t ends a bootstrap run that had taken the lock in this step
BootstrapEnds(t) ==
    /\ InThreadProc(t)
    /\ pc[t] \in {"tp_disc", "ex_load"}
    /\ pc'[t] \notin {"tp_disc", "ex_load"}

\* C29: the step in which a bootstrap run ends and leaves the lock prints
\* exactly one Reason line when the run failed, whichever step failed, and
\* none when it succeeded; nothing was printed for the context before.
C29_AsStated ==
    [][\A t \in Threads :
         BootstrapEnds(t) =>
            /\ warned[loc[t].ctx] = {}
            /\ IF loc'[t].branch = "ok"
               THEN warned'[loc[t].ctx] = {}
               ELSE Cardinality(warned'[loc[t].ctx]) = 1]_vars

\* ------------------------------------------------------------------------
\* Properties of the text buffer
\* ------------------------------------------------------------------------

\* thread t renders into the text buffer or has just returned the text
Renders(t) == loc[t].op = "DisplayText"

\* C30: throughout a rendering the capacity ctxDT.cszMax stays 0x10000, the
\* written length ctxDT.csz stays below it, text that does not fit is cut
\* off instead of being written past the allocation, and the final copy of
\* csz + 1 bytes stays inside the allocation.
C30_AsStated ==
    \A t \in Callers :
        Renders(t) =>
            /\ loc[t].buf.cszMax = cszMax_Initial
            /\ loc[t].buf.csz < LocalAllocSize
            /\ ~loc[t].buf.over

\* ------------------------------------------------------------------------
\* Properties of the sub-headers
\* ------------------------------------------------------------------------

\* thread t has returned from rendering an object header whose loop ran
HeaderRendered(t) ==
    pc[t] = "done" /\ loc[t].op = "DisplayHeader" /\ loc[t].hdr.cb[1] # 0

\* the loop indices of the sub-headers that have a name in the switch
NamedSubs == {i \in 0..8 : HeaderSubTypes[i + 1] # NoName}

\* the loop indices the test selects for InfoMask
SelectedSubs(InfoMask) == {i \in 0..8 : SubSelected(InfoMask, i)}

\* the selected loop indices up to the first one without a name or a size
ReachedSubs(h) ==
    {i \in SelectedSubs(h.InfoMask) :
        \A j \in SelectedSubs(h.InfoMask) : j <= i => ~SubUnknown(h.cb, j)}

\* the sum of the sizes of the sub-headers at the indices of S
RECURSIVE SizesOf(_, _)
SizesOf(cb, S) ==
    IF S = {} THEN 0
    ELSE LET i == CHOOSE x \in S : TRUE IN cb[i + 1] + SizesOf(cb, S \ {i})

\* the k-th smallest element of S
RECURSIVE Nth(_, _)
Nth(S, k) ==
    LET m == CHOOSE x \in S : \A y \in S : x <= y
    IN  IF k = 1 THEN m ELSE Nth(S \ {m}, k - 1)

\* the nested calls of h are those of the indices of S, in bit order, each
\* with depth cap 2 and without object-header mode, at the address of the
\* top-level rendering minus the sizes of the sub-headers up to its own
CallsAre(h, S) ==
    /\ Len(h.calls) = Cardinality(S)
    /\ \A k \in 1..Len(h.calls) :
         LET i == Nth(S, k)
         IN  /\ h.calls[k].szTypeName = HeaderSubTypes[i + 1]
             /\ h.calls[k].cLevelMax = 2
             /\ ~h.calls[k].fObjHeader
             /\ h.calls[k].fHexAscii = h.fHexAscii
             /\ h.calls[k].vaType =
                  Sub64(h.va0, Small64(SizesOf(h.cb, {j \in S : j <= i})))

\* C31 (as stated): in object-header mode with instance memory available,
\* every sub-header whose bit is set in the info mask, and the pool header
\* always, is rendered by one nested call with depth cap 2 and without
\* object-header mode, at the previous address minus its size.
C31_AsStated ==
    \A t \in Callers :
        HeaderRendered(t) =>
            CallsAre(loc[t].hdr, SelectedSubs(loc[t].hdr.InfoMask) \cap NamedSubs)

\* C31 (amended): the sub-headers are rendered in bit order up to the first
\* selected index for which the switch has no name (bits 5 and 7) or the
\* system has no size, where the loop ends; the pool header is rendered only
\* if the loop gets that far. Each rendering is one nested call with depth
\* cap 2 and without object-header mode, at the previous address minus the
\* size of its sub-header.
C31_SubHeadersUntilUnknown ==
    \A t \in Callers :
        HeaderRendered(t) => CallsAre(loc[t].hdr, ReachedSubs(loc[t].hdr))

\* C31 witness: a rendering of a header with name and quota info has made
\* its three nested calls, the pool header last
C31_Witness ==
    /\ HeaderRendered("t1")
    /\ loc["t1"].hdr.InfoMask = 10
    /\ Len(loc["t1"].hdr.calls) = 3
    /\ loc["t1"].hdr.calls[3].szTypeName = "_POOL_HEADER"
    /\ loc["t1"].hdr.calls[3].vaType = Sub64(loc["t1"].hdr.va0, Small64(80))

\* ------------------------------------------------------------------------
\* Properties of the handles of module addresses
\* ------------------------------------------------------------------------

\* thread t has returned a nonzero handle from
\* PDB_GetHandleFromModuleAddress
ReturnedAddressHandle(t) ==
    /\ pc[t] = "done"
    /\ loc[t].op = "GetHandleFromModuleAddress"
    /\ loc[t].retH # Zero64

\* C32: every nonzero handle PDB_GetHandleFromModuleAddress returns for
\* vaModuleBase identifies an Entry whose module base is vaModuleBase, also
\* when the fingerprint of the module was registered earlier for another
\* base address.
C32_AsStated ==
    \A t \in Callers :
        ReturnedAddressHandle(t) =>
            \E i \in IdentifiedBy(ctx[loc[t].ctx], loc[t].retH) :
                ctx[loc[t].ctx].ob[i].vaModuleBase = loc[t].va

\* ------------------------------------------------------------------------
\* Properties of the reserved kernel handle
\* ------------------------------------------------------------------------

\* C33: after a bootstrap run has succeeded, the reserved kernel handle and
\* PDB_GetHandleFromModuleName("ntoskrnl") resolve to the Entry that the
\* bootstrap registered and loaded, whatever was registered before the
\* worker acquired the lock.
C33_AsStated ==
    (pPdbContext # 0 /\ ~ctx[pPdbContext].fDisabled) =>
        /\ PDB_GetHandleFromModuleName(Str(s_ntoskrnl)) = KernelHash
        /\ Query_Handle("LoadEnsure", PDB_HANDLE_KERNEL) = KernelHash

\* ------------------------------------------------------------------------
\* Properties of the teardown
\* ------------------------------------------------------------------------

\* PDB_Close has deleted the lock of context g and zeroed its memory
TornDown(g) == ctx[g].lock.st = "deleted"

\* worker w acquires, holds or releases the lock of its context, or reads or
\* writes it, in this step
UsesContext(w) ==
    /\ pc[w] \in {"tp_enter", "tp_disc", "ex_load"}
    /\ pc'[w] # pc[w]

\* C34: in every interleaving of PDB_Close, called directly or through
\* PDB_ConfigChange, with a dispatched worker, the worker never acquires,
\* holds or releases the lock and never reads or writes the context after
\* PDB_Close has deleted the lock and zeroed the context.
C34_AsStated ==
    [][\A w \in Workers : UsesContext(w) => ~TornDown(loc[w].ctx)]_vars

\* ------------------------------------------------------------------------
\* Properties of the launcher's event
\* ------------------------------------------------------------------------

\* thread t executes SetEvent(*pKernelParameters->phEventThreadStarted)
SignalsStarted(t) ==
    /\ InThreadProc(t)
    /\ pc[t] = "tp_enter"
    /\ pc'[t] # "tp_enter"

\* C35: in every interleaving, also when the launcher's wait times out
\* before the worker has started, the worker signals the "started" event
\* only while the launcher's event handle exists, never after PDB_Initialize
\* has closed the handle and returned.
C35_AsStated ==
    [][\A t \in Threads : SignalsStarted(t) => ev[loc[t].evt] # "closed"]_vars

\* ------------------------------------------------------------------------
\* Properties of the Entries' fields
\* ------------------------------------------------------------------------

\* thread t returns from PDB_AddModuleEntry for a fingerprint that was
\* registered when it took the lock
Reregisters(t) ==
    /\ pc[t] = "add_enter"
    /\ pc'[t] = "done"
    /\ ObMap_ExistsKey(ctx[loc[t].ctx].pmPdbByHash, HashOfArgs(loc[t].a))

\* the identity and binding fields of Entry e
IdentityAndBinding(e) ==
    <<e.qwHash, e.szName, e.pbGUID, e.dwAge, e.szModuleName, e.vaModuleBase,
      e.cbModuleSize>>

\* the load state of Entry e
LoadStateOf(e) == <<e.qwLoadAddress, e.fLoadFailed, e.szPath>>

\* some thread takes a step of PDB_LoadEnsureEx
LoadEnsureExSteps ==
    \E t \in Threads : pc[t] \in {"q_enter", "ex_load", "tp_disc"} /\ pc'[t] # pc[t]

\* C36: registering a fingerprint that is already present changes nothing:
\* PDB_AddModuleEntry with an existing triple but another module base, size
\* or name leaves the Entry's identity and binding fields, its load state,
\* both indices and the slot counter unchanged; no operation other than
\* PDB_LoadEnsureEx modifies an Entry after its creation.
C36_ReregistrationChangesNothing ==
    /\ [][\A t \in Callers : Reregisters(t) => ctx' = ctx]_vars
    /\ [][\A g \in 1..MaxCtx : \A i \in 1..Len(ctx[g].ob) :
            i <= Len(ctx'[g].ob) =>
                /\ IdentityAndBinding(ctx'[g].ob[i]) = IdentityAndBinding(ctx[g].ob[i])
                /\ LoadStateOf(ctx'[g].ob[i]) # LoadStateOf(ctx[g].ob[i])
                     => LoadEnsureExSteps]_vars

\* C36 witness: a caller has registered the fingerprint of a loaded Entry
\* again with another module base and name and got the fingerprint back; the
\* Entry is still bound to its first base and still loaded
C36_Witness ==
    \E t \in Callers :
        /\ pc[t] = "done"
        /\ loc[t].op = "AddModuleEntry"
        /\ loc[t].existed
        /\ loc[t].ctx # 0
        /\ \E i \in 1..Len(ctx[loc[t].ctx].ob) :
              LET e == ctx[loc[t].ctx].ob[i]
              IN  /\ e.qwHash = loc[t].retH
                  /\ e.vaModuleBase # loc[t].a.vaModuleBase
                  /\ e.szModuleName # Str(loc[t].a.szModuleName)
                  /\ e.qwLoadAddress # Zero64

\* ------------------------------------------------------------------------
\* Properties of the two paths of PDB_GetSymbolOffset
\* ------------------------------------------------------------------------

\* thread t has the results of both paths for a name that matches one symbol
PathsCompared(t) ==
    /\ pc[t] = "done"
    /\ loc[t].paths # <<>>
    /\ loc[t].paths[1].f

\* C37 as stated: for a name that matches exactly one symbol the 32-bit
\* enumeration path and the 64-bit direct-lookup path return the same
\* success flag and the same offset, for every symbol offset
C37_AsStated ==
    \A t \in Callers :
        PathsCompared(t) =>
            /\ loc[t].paths[2].f = loc[t].paths[3].f
            /\ loc[t].paths[2].dw = loc[t].paths[3].dw

\* C37: for a name that matches exactly one symbol the 64-bit path succeeds
\* with the symbol's offset; the 32-bit path returns the same flag and the
\* same offset when the offset is in 1..0x0fffffff, and fails with offset 0
\* when the offset is 0 or is 0x10000000 or more
C37_PathsAgreeInsideLimit ==
    \A t \in Callers :
        PathsCompared(t) =>
            LET v == loc[t].paths[1].v
                r32 == loc[t].paths[2]
                r64 == loc[t].paths[3]
            IN  /\ r64.f /\ r64.dw = v
                /\ IF v # <<0, 0>> /\ v[2] < 4096
                   THEN r32.f /\ r32.dw = v
                   ELSE ~r32.f /\ r32.dw = <<0, 0>>

\* C37 witness: both paths have answered for a symbol at offset 0x0fffffff
\* while the other thread holds the answers for a symbol at 0x10000000
C37_Witness ==
    /\ PathsCompared("t1")
    /\ loc["t1"].paths[1].v = <<65535, 4095>>
    /\ loc["t1"].paths[2] = loc["t1"].paths[3]
    /\ PathsCompared("t2")
    /\ loc["t2"].paths[1].v = <<0, 4096>>
    /\ ~loc["t2"].paths[2].f

\* ------------------------------------------------------------------------
\* Properties of the decoding of instance bytes
\* ------------------------------------------------------------------------

\* the call of PDB_DisplayTypeNt_DoWork that made the nested call recorded
\* at text[k]
CallerOf(text, k) ==
    LET before == {j \in 1..(k - 1) :
                     text[j].kind = "call" /\ text[j].depth = text[k].depth - 1}
    IN  CHOOSE j \in before : \A i \in before : i <= j

\* the window of the nested call recorded at text[k], made for the field of
\* the line text[k - 1], lies inside the window of the call that made it
WindowInside(text, k) ==
    /\ text[k - 1].off <= text[CallerOf(text, k)].cbMEM
    /\ text[k - 1].off + text[k].cbMEM = text[CallerOf(text, k)].cbMEM
    /\ text[k - 1].off + TypeDb[text[k].ti].qwLength <= text[CallerOf(text, k)].cbMEM

\* C38 as stated: whatever field metadata the Symbol Backend reports, at
\* every recursion level each scalar decode reads only bytes of the current
\* window of instance bytes (offset + size <= cbMEM), and each window passed
\* to a nested call lies entirely inside the window of the call that
\* passes it
C38_AsStated ==
    \A t \in Callers : \A k \in 1..Len(loc[t].text) :
        /\ loc[t].text[k].kind = "line" => ~loc[t].text[k].oob
        /\ (loc[t].text[k].kind = "call" /\ loc[t].text[k].depth > 0
                /\ loc[t].text[k].fMem) => WindowInside(loc[t].text, k)

====
